---- MODULE Spec2Model ----
(***************************************************************************)
(* State-machine model of the Walmart catalogue sweep (the paginated       *)
(* category exporter): request signing, fetchPage's retry loop,            *)
(* fetchAllItemsForCategory's pagination, main's sweep over subtree files  *)
(* and category rows with its three output tiers, and finalizeAndExit      *)
(* with the exit handlers.                                                 *)
(*                                                                         *)
(* Strings are sequences of one-character strings.  A nullable JavaScript  *)
(* value is Null (<<>>) or Some(v) (<<v>>).  Every action is the           *)
(* synchronous stretch of JavaScript between two suspension points         *)
(* (await); the handlers of signals and uncaught errors run only while     *)
(* main is suspended.                                                      *)
(***************************************************************************)
EXTENDS Integers, Sequences, FiniteSets, TLC

(* ------------------------- program constants ------------------------- *)

COUNT_PER_PAGE == 500
REQUEST_DELAY_MS == 200
CATEGORY_DELAY_MS == 150
FETCH_ATTEMPTS == 5
RETRY_BASE_DELAY_MS == 500
MAX_ERROR_BODY_CHARS == 1200

EXPORT_PARENT_ROWS_TOO == FALSE
DEDUPE_WITHIN_EACH_CATEGORY_CSV == TRUE
DEDUPE_WITHIN_SUBTREE_AGG == TRUE
DEDUPE_MASTER == FALSE

(* ------------------------------ bounds -------------------------------- *)

\* The server offers a continuation pointer on at most this many pages of
\* one category.
MaxPages == 2

(* --------------------------- nullable values -------------------------- *)

Null == <<>>

Some(v) == <<v>>

\* JavaScript's  x ?? d  on a nullable value.
OrElse(x, d) == IF x = Null THEN d ELSE x[1]

(* ------------------------------ strings ------------------------------- *)

IsSpace(c) == c = " "

RECURSIVE TrimStart(_)
TrimStart(s) ==
    IF s # <<>> /\ IsSpace(Head(s)) THEN TrimStart(Tail(s)) ELSE s

RECURSIVE TrimEnd(_)
TrimEnd(s) ==
    IF s # <<>> /\ IsSpace(s[Len(s)]) THEN TrimEnd(SubSeq(s, 1, Len(s) - 1)) ELSE s

\* String.prototype.trim
Trim(s) == TrimEnd(TrimStart(s))

\* String.prototype.startsWith
StartsWith(s, p) == Len(p) <= Len(s) /\ SubSeq(s, 1, Len(p)) = p

\* String.prototype.endsWith
EndsWith(s, p) == Len(p) <= Len(s) /\ SubSeq(s, Len(s) - Len(p) + 1, Len(s)) = p

\* String.prototype.slice(0, n)
Slice(s, n) == SubSeq(s, 1, IF Len(s) < n THEN Len(s) ELSE n)

\* The characters of \w: letters, digits and the underscore.
WordChars ==
    {"a", "b", "c", "d", "e", "f", "g", "h", "i", "j", "k", "l", "m",
     "n", "o", "p", "q", "r", "s", "t", "u", "v", "w", "x", "y", "z",
     "A", "B", "C", "D", "E", "F", "G", "H", "I", "J", "K", "L", "M",
     "N", "O", "P", "Q", "R", "S", "T", "U", "V", "W", "X", "Y", "Z",
     "0", "1", "2", "3", "4", "5", "6", "7", "8", "9", "_"}

\* The class [\w\-] of sanitizeFilename's first replacement.
IsNameChar(c) == c \in WordChars \/ c = "-"

\* String.prototype.toLowerCase on the letters file names are written in.
LowerOf(c) ==
    CASE c = "C" -> "c" [] c = "S" -> "s" [] c = "V" -> "v" [] c = "T" -> "t"
      [] OTHER -> c

ToLowerCase(s) == [i \in 1..Len(s) |-> LowerOf(s[i])]

\* replaceAll(/[^\w\-]+/g, "_") followed by replaceAll(/_+/g, "_"): every
\* character outside the class becomes an underscore and every run of
\* underscores is collapsed to one.
\* The result is acc followed by the characters of s so treated: an
\* underscore is left out when the character before it is an underscore.
ReplaceAndCollapse(s, acc) ==
    LET m == [i \in 1..Len(s) |-> IF IsNameChar(s[i]) THEN s[i] ELSE "_"]
        before(i) == IF i > 1 THEN m[i - 1]
                     ELSE IF acc = <<>> THEN "" ELSE acc[Len(acc)]
        marked == [i \in 1..Len(s) |-> <<m[i], m[i] = "_" /\ before(i) = "_">>]
        kept == SelectSeq(marked, LAMBDA p : ~p[2])
    IN  acc \o [i \in 1..Len(kept) |-> kept[i][1]]

\* replaceAll(/^_+|_+$/g, "")
RECURSIVE StripUnderscores(_)
StripUnderscores(s) ==
    IF s # <<>> /\ Head(s) = "_" THEN StripUnderscores(Tail(s))
    ELSE IF s # <<>> /\ s[Len(s)] = "_"
         THEN StripUnderscores(SubSeq(s, 1, Len(s) - 1))
         ELSE s

FILENAME_MAX_CHARS == 160

\* sanitizeFilename without the replacement that takes the underscores off
\* the two ends.
sanitizeFilename_NoStrip(value) ==
    LET r == Slice(ReplaceAndCollapse(Trim(value), <<>>), FILENAME_MAX_CHARS)
    IN  IF r = <<>> THEN <<"e", "x", "p", "o", "r", "t">> ELSE r

sanitizeFilename(value) ==
    LET r == Slice(StripUnderscores(ReplaceAndCollapse(Trim(value), <<>>)),
                   FILENAME_MAX_CHARS)
    IN  IF r = <<>> THEN <<"e", "x", "p", "o", "r", "t">> ELSE r

\* The length of the decimal numeral of n >= 0.
RECURSIVE Digits(_)
Digits(n) == IF n < 10 THEN 1 ELSE 1 + Digits(n \div 10)

\* safeTruncate on the length of the string: a body is modelled by its
\* length; the result is the length of the returned string and whether the
\* "... [truncated k chars]" suffix was put on it.
safeTruncate(len, n) ==
    IF len <= n
    THEN [len |-> len, truncated |-> FALSE]
    ELSE [len |-> n + 15 + Digits(len - n) + 7, truncated |-> TRUE]

(* -------------------------------- CSV ---------------------------------- *)

\* s.replaceAll('"', '""')
RECURSIVE DoubleQuotes(_)
DoubleQuotes(s) ==
    IF s = <<>> THEN <<>>
    ELSE (IF Head(s) = "\"" THEN <<"\"", "\"">> ELSE <<Head(s)>>)
         \o DoubleQuotes(Tail(s))

\* escapeCSV leaving the quotes of the value as they are.
escapeCSV_NoDoubling(value) == <<"\"">> \o value \o <<"\"">>

\* `"${s.replaceAll('"', '""')}"`
escapeCSV(value) == <<"\"">> \o DoubleQuotes(value) \o <<"\"">>

\* Array.prototype.join
RECURSIVE Join(_, _)
Join(parts, sep) ==
    IF parts = <<>> THEN <<>>
    ELSE IF Len(parts) = 1 THEN parts[1]
    ELSE parts[1] \o sep \o Join(Tail(parts), sep)

\* columns.map((k) => escapeCSV(row[k])).join(",") + "\n", the row given
\* as its values in the order of the columns.
rowToCSVLine(row) ==
    Join([k \in 1..Len(row) |-> escapeCSV(row[k])], <<",">>) \o <<"\n">>

\* The while loop of parseCSV from index i (1-based) on, with the locals
\* field, row, rows and inQuotes, and what follows the loop.
RECURSIVE ParseFrom(_, _, _, _, _, _)
ParseFrom(text, i, field, row, rows, inQuotes) ==
    IF i > Len(text)
    THEN IF Len(field) > 0 \/ Len(row) > 0
         THEN Append(rows, Append(row, field))
         ELSE rows
    ELSE LET c == text[i]
         IN  IF inQuotes
             THEN IF c = "\""
                  THEN IF i + 1 <= Len(text) /\ text[i + 1] = "\""
                       THEN ParseFrom(text, i + 2, Append(field, "\""), row, rows, TRUE)
                       ELSE ParseFrom(text, i + 1, field, row, rows, FALSE)
                  ELSE ParseFrom(text, i + 1, Append(field, c), row, rows, TRUE)
             ELSE IF c = "\""
                  THEN ParseFrom(text, i + 1, field, row, rows, TRUE)
             ELSE IF c = ","
                  THEN ParseFrom(text, i + 1, <<>>, Append(row, field), rows, FALSE)
             ELSE IF c = "\n"
                  THEN ParseFrom(text, i + 1, <<>>, <<>>,
                                 Append(rows, Append(row, field)), FALSE)
             ELSE IF c = "\r"
                  THEN ParseFrom(text, i + 1, field, row, rows, FALSE)
             ELSE ParseFrom(text, i + 1, Append(field, c), row, rows, FALSE)

parseCSV(text) == ParseFrom(text, 1, <<>>, <<>>, <<>>, FALSE)

(* ------------------------------ signing -------------------------------- *)

\* The names of the three headers that are signed.
NameConsumerId == <<"W", "M", "_", "C", "O", "N", "S", "U", "M", "E", "R", ".", "I", "D">>

NameInTimestamp ==
    <<"W", "M", "_", "C", "O", "N", "S", "U", "M", "E", "R", ".", "I", "N", "T", "I", "M", "E", "S", "T", "A", "M", "P">>

NameKeyVersion ==
    <<"W", "M", "_", "S", "E", "C", ".", "K", "E", "Y", "_", "V", "E", "R", "S", "I", "O", "N">>

NameSecTimestamp == <<"W", "M", "_", "S", "E", "C", ".", "T", "I", "M", "E", "S", "T", "A", "M", "P">>

NameSignature ==
    <<"W", "M", "_", "S", "E", "C", ".", "A", "U", "T", "H", "_", "S", "I", "G", "N", "A", "T", "U", "R", "E">>

NameAccept == <<"A", "c", "c", "e", "p", "t">>

\* The characters of the header names in the order of their code units.
CodeOrder ==
    <<".", "A", "B", "C", "D", "E", "F", "G", "H", "I", "J", "K", "L", "M", "N",
      "O", "P", "Q", "R", "S", "T", "U", "V", "W", "X", "Y", "Z", "_",
      "a", "b", "c", "d", "e", "f", "g", "h", "i", "j", "k", "l", "m", "n",
      "o", "p", "q", "r", "s", "t", "u", "v", "w", "x", "y", "z">>

CharCode(c) == CHOOSE i \in 1..Len(CodeOrder) : CodeOrder[i] = c

\* a < b as Array.prototype.sort compares strings: by code units.
LexLess(a, b) ==
    \E k \in 1..(Len(a) + 1) :
        /\ k <= Len(b) + 1
        /\ SubSeq(a, 1, k - 1) = SubSeq(b, 1, k - 1)
        /\ \/ k = Len(a) + 1 /\ k <= Len(b)
           \/ k <= Len(a) /\ k <= Len(b) /\ CharCode(a[k]) < CharCode(b[k])

\* Object.keys(map).sort()
SortKeys(keys) ==
    CHOOSE s \in [1..Cardinality(keys) -> keys] :
        \A i, j \in 1..Cardinality(keys) : i < j => LexLess(s[i], s[j])

\* String(n) of a number n >= 0.
RECURSIVE ToDecimal(_)
ToDecimal(n) ==
    LET d == <<"0", "1", "2", "3", "4", "5", "6", "7", "8", "9">>[(n % 10) + 1]
    IN  IF n < 10 THEN <<d>> ELSE Append(ToDecimal(n \div 10), d)

\* canonicalizeForSignature without the newline after the last value.
canonicalizeForSignature_NoNewline(consumerId, ts, keyVer) ==
    LET map == (NameConsumerId :> Trim(consumerId))
               @@ (NameInTimestamp :> Trim(ts))
               @@ (NameKeyVersion :> Trim(keyVer))
        sortedKeys == SortKeys(DOMAIN map)
    IN  Join([k \in 1..Len(sortedKeys) |-> map[sortedKeys[k]]], <<"\n">>)

canonicalizeForSignature(consumerId, ts, keyVer) ==
    LET map == (NameConsumerId :> Trim(consumerId))
               @@ (NameInTimestamp :> Trim(ts))
               @@ (NameKeyVersion :> Trim(keyVer))
        sortedKeys == SortKeys(DOMAIN map)
    IN  Join([k \in 1..Len(sortedKeys) |-> map[sortedKeys[k]]], <<"\n">>) \o <<"\n">>

\* crypto.sign("RSA-SHA256", toSign, {key, padding}).toString("base64"): the
\* signature stands for the key and the bytes it was made from.  PKCS#1
\* v1.5 padding draws no random salt: the choice is among one value.
Salts(padding) == IF padding = "RSA_PKCS1_PADDING" THEN {0} ELSE {0, 1}

cryptoSign(toSign, key, salt) == [key |-> key, signed |-> toSign, salt |-> salt]

\* buildAuthHeaders when Date.now() gives now, with the signature it
\* returns and the string it signed.
buildAuthHeadersAt(kd, now, salt) ==
    LET id == Trim(kd.consumerId)
        kv == Trim(kd.keyVer)
        ts == Trim(ToDecimal(now))
        toSign == canonicalizeForSignature(id, ts, kv)
        signature == cryptoSign(toSign, kd.privateKeyPem, salt)
    IN  [toSign |-> toSign,
         headers |-> (NameConsumerId :> id)
                     @@ (NameInTimestamp :> ts)
                     @@ (NameSecTimestamp :> ts)
                     @@ (NameKeyVersion :> kv)
                     @@ (NameSignature :> signature)
                     @@ (NameAccept :> <<"application/json">>)]

(* ------------------------- the Kroger scraper -------------------------- *)

MAX_RETRIES == 3

MAX_PAGES == 20

PAGE_LIMIT == 50

RETRY_DELAY_MS == 2000

\* REQUEST_DELAY_MS of kroger_food_scraper.js.
KROGER_REQUEST_DELAY_MS == 350

\* The statuses the Kroger API answers a product request with.
KrogerStatuses == {200, 401, 429, 500}

\* The numbers of items on a page: none, one short of a full page, full.
PageLens == {0, PAGE_LIMIT - 1, PAGE_LIMIT}

\* const totalPages = dryRun ? 1 : MAX_PAGES
totalPages(k) == IF k.dryRun THEN 1 ELSE MAX_PAGES

\* fetchWithRetry is called with the token and issues its first request.
\* pages counts the pages asked for, firstToken keeps the token of the
\* first call made for the page.
fetchWithRetry(k, call, token) ==
    [k EXCEPT !.pc = "request", !.call = call, !.attempt = 1, !.reqs = 1,
              !.status = 0, !.token = token,
              !.firstToken = IF call = 1 THEN token ELSE @,
              !.pages = IF call = 1 THEN @ + 1 ELSE @]

\* tokenMgr.getToken() followed by the call of fetchWithRetry: the cached
\* token is used when there is one and Date.now() < expiresAt - 60000
\* (expiring tells that it is not), otherwise a token is requested.
getToken(k, call, expiring) ==
    IF k.accessToken # 0 /\ k.expiresAt = "later" /\ ~expiring
    THEN fetchWithRetry(k, call, k.accessToken)
    ELSE [k EXCEPT !.pc = "token", !.call = call]

\* The head of `for (let page = 0; page < totalPages; page++)`.
ForPage(k, expiring) ==
    IF k.page < totalPages(k) THEN getToken(k, 1, expiring)
    ELSE [k EXCEPT !.pc = "returned"]

(* --------------------------- subtree helpers -------------------------- *)

\* s.split("/").length
SplitLen(s) == 1 + Cardinality({i \in 1..Len(s) : s[i] = "/"})

\* Number.POSITIVE_INFINITY of getDepth, as a depth no path reaches.
INFINITE_DEPTH == 1000000

getDepth(pathValue) ==
    LET s == Trim(pathValue)
    IN  IF s = <<>> THEN INFINITE_DEPTH ELSE SplitLen(s)

\* The comparator ordering by depth alone.
RootBefore_DepthOnly(a, b) == getDepth(a.path) < getDepth(b.path)

\* The comparator of pickSubtreeRoot's sort: a goes before b.
RootBefore(a, b) ==
    LET da == getDepth(a.path)
        db == getDepth(b.path)
    IN  IF da # db THEN da < db ELSE Len(a.path) < Len(b.path)

\* candidates.sort(...)[0]: the sort is stable, so the first element is
\* the first candidate that no other candidate goes strictly before.
pickSubtreeRoot(objs) ==
    LET cand == SelectSeq(objs, LAMBDA o : Trim(o.id) # <<>> /\ Trim(o.name) # <<>>)
    IN  IF cand = <<>> THEN Null
        ELSE LET k == CHOOSE i \in 1..Len(cand) :
                        /\ \A j \in 1..Len(cand) : ~RootBefore(cand[j], cand[i])
                        /\ \A j \in 1..(i - 1) : RootBefore(cand[i], cand[j])
             IN  Some(cand[k])

\* isParentRow matching only the rows one segment below the row.
isParentRow_DirectChild(allRows, row) ==
    LET p == Trim(row.path)
    IN  IF p = <<>> THEN FALSE
        ELSE LET prefix == IF EndsWith(p, <<"/">>) THEN p ELSE p \o <<"/">>
             IN  \E k \in 1..Len(allRows) :
                     /\ StartsWith(allRows[k].path, prefix)
                     /\ SplitLen(allRows[k].path) = SplitLen(prefix)

isParentRow(allRows, row) ==
    LET p == Trim(row.path)
    IN  IF p = <<>> THEN FALSE
        ELSE LET prefix == IF EndsWith(p, <<"/">>) THEN p ELSE p \o <<"/">>
             IN  \E k \in 1..Len(allRows) : StartsWith(allRows[k].path, prefix)

RECURSIVE MapTrimRows(_)
MapTrimRows(objs) ==
    IF objs = <<>> THEN <<>>
    ELSE <<[id |-> Trim(Head(objs).id), name |-> Trim(Head(objs).name),
            path |-> Trim(Head(objs).path)]>> \o MapTrimRows(Tail(objs))

\* The rows trimmed and none filtered out.
LoadedRows_NoFilter(objsRaw) == MapTrimRows(objsRaw)

\* main's  objsRaw.map(trim).filter(o => o.id && o.name)
LoadedRows(objsRaw) ==
    SelectSeq(MapTrimRows(objsRaw), LAMBDA o : o.id # <<>> /\ o.name # <<>>)

(* ----------------------------- the inputs ---------------------------- *)

\* One parsed row of a subtree file (rowsToObjects' object), fields untrimmed.
Obj(id, name, path) == [id |-> id, name |-> name, path |-> path]

\* A directory entry: its name, whether it can be read, and the objects
\* parseCSV and rowsToObjects make of its text (the header row taken off).
File(name, readable, objs) == [name |-> name, readable |-> readable, objs |-> objs]

\* f.toLowerCase().endsWith(".csv")
IsCsvName(name) == EndsWith(ToLowerCase(name), <<".", "c", "s", "v">>)

\* path.basename(file, ".csv")
Basename(name) ==
    IF EndsWith(name, <<".", "c", "s", "v">>) /\ Len(name) > 4
    THEN SubSeq(name, 1, Len(name) - 4)
    ELSE name

\* A root with two leaves below it: the root is a parent row.
FileOne ==
    File(<<"s", ".", "c", "s", "v">>, TRUE,
         <<Obj(<<"1">>, <<"A">>, <<"a">>),
           Obj(<<"2">>, <<"B">>, <<"a", "/", "b">>),
           Obj(<<"3">>, <<"C", " ", "c">>, <<"a", "/", "c">>)>>)

\* A single row, and a row without an id.
FileTwo ==
    File(<<"t", ".", "C", "S", "V">>, TRUE,
         <<Obj(<<" ">>, <<"n">>, <<"y", "/", "n">>),
           Obj(<<"4">>, <<"Y">>, <<"y">>)>>)

\* A root with one leaf below it.
FileThree ==
    File(<<"r", ".", "c", "s", "v">>, TRUE,
         <<Obj(<<"5">>, <<"R">>, <<"r">>),
           Obj(<<"6">>, <<"L">>, <<"r", "/", "l">>)>>)

\* A file whose only row has no id: no usable row, no root.
FileBlank ==
    File(<<"b", " ", "1", ".", "c", "s", "v">>, TRUE,
         <<Obj(<<>>, <<"n">>, <<"n">>)>>)

\* A file with a header line only.
FileEmpty == File(<<"e", ".", "c", "s", "v">>, TRUE, <<>>)

\* A file that cannot be read.
FileUnreadable == File(<<"u", ".", "c", "s", "v">>, FALSE, <<>>)

\* A directory entry that is no subtree file.
FileNotes == File(<<"n", ".", "t", "x", "t">>, TRUE, <<>>)

\* The directories a run may find: missing, without subtree files, and
\* with subtree files in directory-listing order.
DirMenu ==
    { [exists |-> FALSE, files |-> <<>>],
      [exists |-> TRUE, files |-> <<FileNotes>>],
      [exists |-> TRUE, files |-> <<FileBlank, FileOne>>],
      [exists |-> TRUE, files |-> <<FileNotes, FileTwo, FileEmpty, FileThree>>],
      [exists |-> TRUE, files |-> <<FileTwo, FileUnreadable, FileOne>>] }

\* The HTTP statuses the server answers with.
Statuses == {200, 404, 429, 503}

\* The lengths of the bodies of error responses (0 also stands for a body
\* that could not be read: res.text().catch(() => "")).
BodyLens == {0, MAX_ERROR_BODY_CHARS + 1}

\* The items arrays of the pages the server serves: item ids, "" for an
\* item without an itemId.
PageMenu == { <<"X">>, <<"X", "", "Y", "X">> }

\* The nextPage pointers of the pages: absent, relative, absolute.
NextPageMenu ==
    { <<>>, <<"/", "n">>, <<"h", "t", "t", "p", ":", "/", "/", "c", "/", "n">> }

(* ------------------------------ the state ----------------------------- *)

VARIABLES
    dir,          \* the input directory (CATEGORIES_DIR) as the run finds it
    keyValid,     \* whether crypto.sign accepts keyData.privateKeyPem
    pc,           \* main's position: the await it is suspended at
    fileIdx,      \* main: index of `file` in subtreeFiles
    rowIdx,       \* main: index of `row` in rows
    runState,     \* the runState object
    finalized,    \* the finalized flag
    exited,       \* process.exit has been called: the process is gone
    exitCode,     \* the status process.exit was called with
    log,          \* the run log file: Null or Some(payload)
    logWrites,    \* how many times the run log file was written
    trigger,      \* the first event that called finalizeAndExit
    lateSignal,   \* a signal sent to the process after it exited
    master,       \* masterStream
    subtreeAgg,   \* subtreeAggStream of the current subtree
    category,     \* categoryStream of the current category
    disk,         \* the output files: file name -> lines written to its stream
    seen,         \* seenMaster and seenSubtreeAgg
    fp,           \* the locals of fetchAllItemsForCategory and fetchPage
    calls,        \* the calls of fetchAllItemsForCategory so far, in order:
                  \* the <<fileIdx, rowIdx>> of the row each was made for
    config,       \* the dedup settings the program was started with
    csv,          \* a call of rowToCSVLine and of parseCSV on its result:
                  \* the row, the line written and the rows parsed
    fname,        \* a call of sanitizeFilename: the value and the result
    auth,         \* calls of buildAuthHeaders: keyData and, per call, the
                  \* clock value, the string signed and the headers
    kr            \* a call of the Kroger scraper's fetchProductsForTerm:
                  \* its locals, those of fetchWithRetry, the token manager

\* The variables of the helper functions called on their own.
helpers == <<csv, fname, auth, kr>>

\* The variables of main and of the handlers.
mainVars ==
    <<dir, keyValid, pc, fileIdx, rowIdx, runState, finalized, exited, exitCode,
      log, logWrites, trigger, lateSignal, master, subtreeAgg, category, disk,
      seen, fp, calls, config>>

vars == <<mainVars, helpers>>

\* The suspension points of main: the fixed delays, the network call with
\* the reading of its body, and the ends of the three streams.
AwaitPcs ==
    {"catDelay", "fetch", "json", "text", "backoff", "pageDelay",
     "catEnd", "subtreeEnd", "masterEnd"}

\* Positions inside a synchronous stretch, where no handler can run.
SyncPcs == {"start", "forFile", "forRow"}

\* A stream is "none" (not created), "open", "ending" (end() called, its
\* callback not yet run) or "finished" (the callback of end() has run).
NoStream == [state |-> "none", file |-> <<>>]

\* stream.end(): an open stream starts to end; on a stream that is ending
\* or finished the call changes nothing.
EndStream(stream) ==
    IF stream.state = "open" THEN [stream EXCEPT !.state = "ending"] ELSE stream

\* The locals before a category is fetched.  Next to the code's own locals
\* (url, i, allItems, the status of res) the record keeps what the calls
\* did for the current page: reqs requests issued, signs header sets built,
\* hdr the header set the last request carried, backoffs and delays the
\* backoff delays started; and for the category: pageNo pages asked for,
\* served the pages received, inflight the requests not yet over, sleepMs
\* the delay main is waiting (0: none).
IdleFetch ==
    [url |-> <<>>, i |-> 0, reqs |-> 0, backoffs |-> 0, pageNo |-> 0,
     allItems |-> <<>>, status |-> 0, sleepMs |-> 0,
     delays |-> <<>>, signs |-> 0, hdr |-> 0, inflight |-> 0, served |-> <<>>]

\* The dedup settings as the source sets them.
ShippedConfig ==
    [dedupeCategory |-> DEDUPE_WITHIN_EACH_CATEGORY_CSV,
     dedupeSubtreeAgg |-> DEDUPE_WITHIN_SUBTREE_AGG,
     dedupeMaster |-> DEDUPE_MASTER]

\* No helper function is being called on its own.
IdleCsv == [step |-> "idle", row |-> <<>>, line |-> <<>>, parsed |-> <<>>]

IdleName == [step |-> "idle", value |-> <<>>, result |-> <<>>]

IdleAuth == [keyData |-> Null, calls |-> <<>>]

IdleKroger ==
    [pc |-> "idle", dryRun |-> FALSE, page |-> 0, pages |-> 0, products |-> 0,
     call |-> 0, attempt |-> 0, reqs |-> 0, status |-> 0, sleepMs |-> 0,
     token |-> 0, firstToken |-> 0, accessToken |-> 0, expiresAt |-> "0",
     code |-> "none"]

HelpersIdle ==
    csv = IdleCsv /\ fname = IdleName /\ auth = IdleAuth /\ kr = IdleKroger

\* The state of the program when main is called.
MainStarted ==
    /\ pc = "start"
    /\ fileIdx = 0
    /\ rowIdx = 0
    /\ runState = [endedAt |-> Null, exitReason |-> "completed",
                   subtreeFilesProcessed |-> 0, categoryRowsAttempted |-> 0,
                   categoryRowsSucceeded |-> 0, categoryRowsFailed |-> 0,
                   failures |-> <<>>]
    /\ finalized = FALSE
    /\ exited = FALSE
    /\ exitCode = 0
    /\ log = Null
    /\ logWrites = 0
    /\ trigger = "none"
    /\ lateSignal = "none"
    /\ master = NoStream
    /\ subtreeAgg = NoStream
    /\ category = NoStream
    /\ disk = <<>>
    /\ seen = [master |-> Null, subtreeAgg |-> Null]
    /\ fp = IdleFetch
    /\ calls = <<>>

Started == HelpersIdle /\ MainStarted

\* main with nothing to read: the state of main's variables while a
\* helper function is called on its own.
MainAside ==
    /\ dir = [exists |-> FALSE, files |-> <<>>]
    /\ keyValid = FALSE
    /\ config = ShippedConfig
    /\ MainStarted

Init ==
    /\ dir \in DirMenu
    /\ keyValid \in BOOLEAN
    /\ config = ShippedConfig
    /\ Started

(* --------------------------- request signing -------------------------- *)

\* buildAuthHeaders: the header set, or Null when crypto.sign throws.  The
\* key is the constant keyData.privateKeyPem, so every call of one run
\* succeeds or every call throws.
buildAuthHeaders ==
    IF keyValid
    THEN Some([consumerId |-> "39d025f8", keyVer |-> "5", ts |-> "now"])
    ELSE Null

(* ------------------------------- errors ------------------------------- *)

\* HttpError with the assignment of err.httpStatus left out.
HttpError_NoStatus(status, url, bodyLen) ==
    [message |-> "HTTP status", httpStatus |-> Null, url |-> Some(url),
     responseBody |-> Some(safeTruncate(bodyLen, MAX_ERROR_BODY_CHARS))]

\* The error fetchPage throws on a status it does not retry.
HttpError(status, url, bodyLen) ==
    [message |-> "HTTP status", httpStatus |-> Some(status), url |-> Some(url),
     responseBody |-> Some(safeTruncate(bodyLen, MAX_ERROR_BODY_CHARS))]

\* The error fetchPage throws after its loop.
ErrorAfterAttempts(url) ==
    [message |-> "Failed after attempts", httpStatus |-> Null, url |-> Some(url),
     responseBody |-> Null]

\* What fetch(), res.json() and crypto.sign throw: errors without the
\* httpStatus, url and responseBody properties.
PlainError(message) ==
    [message |-> message, httpStatus |-> Null, url |-> Null, responseBody |-> Null]

\* IsRetryable with every error status taken as transient.
IsRetryable_AnyError(status) == status >= 400

\* status === 429 || (status >= 500 && status <= 599)
IsRetryable(status) == status = 429 \/ (status >= 500 /\ status <= 599)

\* res.ok
IsOk(status) == status >= 200 /\ status <= 299

RECURSIVE Pow2(_)
Pow2(n) == IF n = 0 THEN 1 ELSE 2 * Pow2(n - 1)

\* A backoff that grows by the base delay each turn instead of doubling.
Backoff_Linear(i) == RETRY_BASE_DELAY_MS * (i + 1)

\* RETRY_BASE_DELAY_MS * Math.pow(2, i)
Backoff(i) == RETRY_BASE_DELAY_MS * Pow2(i)

(* ----------------------- main: the current subtree --------------------- *)

\* subtreeFiles: the directory listing filtered to .csv names.
SubtreeFiles == SelectSeq(dir.files, LAMBDA f : IsCsvName(f.name))

CurFile == SubtreeFiles[fileIdx]

\* root?.name ?? path.basename(file, ".csv")
SubtreeName(file) ==
    LET root == pickSubtreeRoot(file.objs)
    IN  IF root = Null THEN Basename(file.name) ELSE root[1].name

\* root?.id ?? ""
SubtreeId(file) ==
    LET root == pickSubtreeRoot(file.objs)
    IN  IF root = Null THEN <<>> ELSE root[1].id

CsvExt == <<".", "c", "s", "v">>

MasterFile ==
    <<"A", "L", "L", "_", "S", "U", "B", "T", "R", "E", "E", "S", "_",
      "P", "R", "O", "D", "U", "C", "T", "S">> \o CsvExt

\* sanitizeFilename(`${subtree_name}_${subtree_id || "unknown"}`) + "__ALL.csv"
SubtreeAggFile(file) ==
    sanitizeFilename(
        SubtreeName(file) \o <<"_">> \o
        (IF SubtreeId(file) = <<>> THEN <<"u", "n", "k", "n", "o", "w", "n">>
         ELSE SubtreeId(file)))
    \o <<"_", "_", "A", "L", "L">> \o CsvExt

\* sanitizeFilename(`${subtree_name}_${subtree_id}__${row.name}_${row.id}`) + ".csv"
CategoryFile(file, row) ==
    sanitizeFilename(
        SubtreeName(file) \o <<"_">> \o SubtreeId(file) \o <<"_", "_">> \o
        row.name \o <<"_">> \o row.id)
    \o CsvExt

Rows == LoadedRows(CurFile.objs)

CurRow == Rows[rowIdx]

(* ------------------------------ the tiers ------------------------------ *)

\* csvHeader(columns)
HeaderLine ==
    [kind |-> "header", subtree_id |-> <<>>, category_id |-> <<>>, item_id |-> ""]

\* rowToCSVLine(itemToRow(item, extra), columns): the identifying columns.
itemToRow(itemId, file, row) ==
    [kind |-> "row", subtree_id |-> SubtreeId(file), category_id |-> row.id,
     item_id |-> itemId]

\* No tier is given a seen-set, whatever its setting.
NewSeen_Never(dedupe) == Null

\* A new Set() when the tier dedupes, null when it does not.
NewSeen(dedupe) == IF dedupe THEN Some({}) ELSE Null

Has(seenSet, itemId) == seenSet # Null /\ itemId \in seenSet[1]

Add(seenSet, itemId) == IF seenSet = Null THEN Null ELSE Some(seenSet[1] \cup {itemId})

\* The loop over the items without `if (!itemId) continue`.
RECURSIVE FanOut_NoIdCheck(_, _, _, _)
FanOut_NoIdCheck(items, file, row, st) ==
    IF items = <<>> THEN st
    ELSE LET itemId == Head(items)
             rest == Tail(items)
         IN  IF Has(st.seenCategory, itemId) THEN FanOut_NoIdCheck(rest, file, row, st)
             ELSE LET outRow == itemToRow(itemId, file, row)
                      toSub == st.seenSubtreeAgg = Null \/ ~Has(st.seenSubtreeAgg, itemId)
                      toMaster == st.seenMaster = Null \/ ~Has(st.seenMaster, itemId)
                  IN  FanOut_NoIdCheck(rest, file, row,
                        [seenCategory |-> Add(st.seenCategory, itemId),
                         seenSubtreeAgg |-> Add(st.seenSubtreeAgg, itemId),
                         seenMaster |-> Add(st.seenMaster, itemId),
                         catLines |-> Append(st.catLines, outRow),
                         subLines |-> IF toSub THEN Append(st.subLines, outRow)
                                      ELSE st.subLines,
                         masterLines |-> IF toMaster THEN Append(st.masterLines, outRow)
                                         ELSE st.masterLines])

\* main's loop over the items of one category: st carries the three
\* seen-sets and the lines written to each tier.
RECURSIVE FanOut(_, _, _, _)
FanOut(items, file, row, st) ==
    IF items = <<>> THEN st
    ELSE LET itemId == Head(items)
             rest == Tail(items)
         IN  IF itemId = "" THEN FanOut(rest, file, row, st)
             ELSE IF Has(st.seenCategory, itemId) THEN FanOut(rest, file, row, st)
             ELSE LET outRow == itemToRow(itemId, file, row)
                      toSub == st.seenSubtreeAgg = Null \/ ~Has(st.seenSubtreeAgg, itemId)
                      toMaster == st.seenMaster = Null \/ ~Has(st.seenMaster, itemId)
                  IN  FanOut(rest, file, row,
                        [seenCategory |-> Add(st.seenCategory, itemId),
                         seenSubtreeAgg |-> Add(st.seenSubtreeAgg, itemId),
                         seenMaster |-> Add(st.seenMaster, itemId),
                         catLines |-> Append(st.catLines, outRow),
                         subLines |-> IF toSub THEN Append(st.subLines, outRow)
                                      ELSE st.subLines,
                         masterLines |-> IF toMaster THEN Append(st.masterLines, outRow)
                                         ELSE st.masterLines])

\* fs.createWriteStream(file) without the write of the header.
CreateFile_NoHeader(d, name) == (name :> <<>>) @@ d

\* fs.createWriteStream(file) followed by the write of the header: the
\* file is created or truncated.
CreateFile(d, name) == (name :> <<HeaderLine>>) @@ d

\* stream.write(line) for each of lines.
WriteLines(d, name, lines) == (name :> (d[name] \o lines)) @@ d

(* ------------------------ logging / finalization ----------------------- *)

\* The payload writeRunLogFile serializes from the runState rs.
writeRunLogFile(rs) ==
    [endedAt |-> OrElse(rs.endedAt, "time of the write"),
     exitReason |-> rs.exitReason,
     counts |-> [subtreeFilesProcessed |-> rs.subtreeFilesProcessed,
                 categoryRowsAttempted |-> rs.categoryRowsAttempted,
                 categoryRowsSucceeded |-> rs.categoryRowsSucceeded,
                 categoryRowsFailed |-> rs.categoryRowsFailed],
     failures |-> rs.failures]

\* finalizeAndExit with the log written before runState is stamped.
finalizeAndExit_LogBeforeStamp(rs, ms, reason, code) ==
    IF finalized
    THEN /\ exited' = TRUE
         /\ exitCode' = code
         /\ runState' = rs
         /\ master' = ms
         /\ UNCHANGED <<finalized, log, logWrites>>
    ELSE /\ finalized' = TRUE
         /\ log' = Some(writeRunLogFile(rs))
         /\ logWrites' = logWrites + 1
         /\ runState' = [rs EXCEPT !.exitReason = reason,
                                   !.endedAt = Some("time of finalize")]
         /\ master' = IF ms.state # "none" THEN EndStream(ms) ELSE ms
         /\ exited' = TRUE
         /\ exitCode' = code

\* finalizeAndExit with process.exitCode = code in the place of
\* process.exit(code): the process is not ended by the call.
finalizeAndExit_NoExit(rs, ms, reason, code) ==
    IF finalized
    THEN /\ exitCode' = code
         /\ runState' = rs
         /\ master' = ms
         /\ UNCHANGED <<finalized, log, logWrites, exited>>
    ELSE LET stamped == [rs EXCEPT !.exitReason = reason,
                                   !.endedAt = Some("time of finalize")]
         IN  /\ finalized' = TRUE
             /\ runState' = stamped
             /\ master' = IF ms.state # "none" THEN EndStream(ms) ELSE ms
             /\ log' = Some(writeRunLogFile(stamped))
             /\ logWrites' = logWrites + 1
             /\ exitCode' = code
             /\ UNCHANGED exited

\* finalizeAndExit(outPath, reason, code), called with runState rs and
\* masterStream ms.  process.exit ends the process synchronously: nothing
\* of the program runs after it.
\* masterStreamRef is ms once the stream was created; whether a finished
\* stream already reports `closed` makes no difference, since end() changes
\* nothing on it.  No other stream is reachable from here.
finalizeAndExit(rs, ms, reason, code) ==
    IF finalized
    THEN /\ exited' = TRUE
         /\ exitCode' = code
         /\ runState' = rs
         /\ master' = ms
         /\ UNCHANGED <<finalized, log, logWrites>>
    ELSE LET stamped == [rs EXCEPT !.exitReason = reason, !.endedAt = Some("time of finalize")]
         IN  /\ finalized' = TRUE
             /\ runState' = stamped
             /\ master' = IF ms.state # "none" THEN EndStream(ms) ELSE ms
             /\ log' = Some(writeRunLogFile(stamped))
             /\ logWrites' = logWrites + 1
             /\ exited' = TRUE
             /\ exitCode' = code

\* The event that called finalizeAndExit first.
FirstTrigger(t) == trigger' = IF trigger = "none" THEN t ELSE trigger

\* main().catch ending the process with status 0.
MainCatch_ExitZero ==
    /\ finalizeAndExit(runState, master, "main() catch", 0)
    /\ FirstTrigger("mainError")

\* main().catch: an error thrown out of main.
MainCatch ==
    /\ finalizeAndExit(runState, master, "main() catch", 1)
    /\ FirstTrigger("mainError")

(* -------------------------------- main --------------------------------- *)

\* main up to the loop over the subtree files.
MainStart ==
    /\ pc = "start"
    /\ ~exited
    /\ IF ~dir.exists \/ SubtreeFiles = <<>>
       THEN /\ MainCatch
            /\ UNCHANGED <<pc, fileIdx, disk, seen>>
       ELSE /\ master' = [state |-> "open", file |-> MasterFile]
            /\ disk' = CreateFile(disk, MasterFile)
            /\ seen' = [seen EXCEPT !.master = NewSeen(config.dedupeMaster)]
            /\ fileIdx' = 1
            /\ pc' = "forFile"
            /\ UNCHANGED <<runState, finalized, exited, exitCode, log, logWrites, trigger>>
    /\ UNCHANGED <<dir, keyValid, config, helpers, calls, rowIdx, lateSignal, subtreeAgg, category, fp>>

\* The loop over the subtree files with seenSubtreeAgg created once, by
\* the first subtree, and kept for the subtrees after it.
ForFile_SeenKept ==
    /\ pc = "forFile"
    /\ ~exited
    /\ IF fileIdx > Len(SubtreeFiles)
       THEN /\ master' = EndStream(master)
            /\ pc' = "masterEnd"
            /\ UNCHANGED <<fileIdx, rowIdx, subtreeAgg, disk, seen, runState,
                           finalized, exited, exitCode, log, logWrites, trigger>>
       ELSE IF ~CurFile.readable
       THEN /\ MainCatch
            /\ UNCHANGED <<pc, fileIdx, rowIdx, subtreeAgg, disk, seen>>
       ELSE IF CurFile.objs = <<>>
       THEN /\ fileIdx' = fileIdx + 1
            /\ UNCHANGED <<pc, rowIdx, subtreeAgg, disk, seen, master, runState,
                           finalized, exited, exitCode, log, logWrites, trigger>>
       ELSE /\ subtreeAgg' = [state |-> "open", file |-> SubtreeAggFile(CurFile)]
            /\ disk' = CreateFile(disk, SubtreeAggFile(CurFile))
            /\ seen' = [seen EXCEPT !.subtreeAgg =
                            IF @ = Null THEN NewSeen(config.dedupeSubtreeAgg) ELSE @]
            /\ rowIdx' = 1
            /\ pc' = "forRow"
            /\ UNCHANGED <<fileIdx, master, runState, finalized, exited, exitCode,
                           log, logWrites, trigger>>
    /\ UNCHANGED <<dir, keyValid, config, helpers, calls, lateSignal, category, fp>>

\* The head of the loop over the subtree files: the file is read and its
\* subtree-aggregate stream opened, or the master stream is ended.
ForFile ==
    /\ pc = "forFile"
    /\ ~exited
    /\ IF fileIdx > Len(SubtreeFiles)
       THEN /\ master' = EndStream(master)
            /\ pc' = "masterEnd"
            /\ UNCHANGED <<fileIdx, rowIdx, subtreeAgg, disk, seen, runState,
                           finalized, exited, exitCode, log, logWrites, trigger>>
       ELSE IF ~CurFile.readable
       THEN /\ MainCatch
            /\ UNCHANGED <<pc, fileIdx, rowIdx, subtreeAgg, disk, seen>>
       ELSE IF CurFile.objs = <<>>
       THEN /\ fileIdx' = fileIdx + 1
            /\ UNCHANGED <<pc, rowIdx, subtreeAgg, disk, seen, master, runState,
                           finalized, exited, exitCode, log, logWrites, trigger>>
       ELSE /\ subtreeAgg' = [state |-> "open", file |-> SubtreeAggFile(CurFile)]
            /\ disk' = CreateFile(disk, SubtreeAggFile(CurFile))
            /\ seen' = [seen EXCEPT !.subtreeAgg = NewSeen(config.dedupeSubtreeAgg)]
            /\ rowIdx' = 1
            /\ pc' = "forRow"
            /\ UNCHANGED <<fileIdx, master, runState, finalized, exited, exitCode,
                           log, logWrites, trigger>>
    /\ UNCHANGED <<dir, keyValid, config, helpers, calls, lateSignal, category, fp>>

\* The head of the loop over the rows: a parent row is skipped, any other
\* row is counted as attempted and the inter-category delay begins; after
\* the last row the subtree-aggregate stream is ended.
ForRow ==
    /\ pc = "forRow"
    /\ ~exited
    /\ IF rowIdx > Len(Rows)
       THEN /\ subtreeAgg' = EndStream(subtreeAgg)
            /\ pc' = "subtreeEnd"
            /\ UNCHANGED <<rowIdx, runState, fp>>
       ELSE IF ~EXPORT_PARENT_ROWS_TOO /\ isParentRow(Rows, CurRow)
       THEN /\ rowIdx' = rowIdx + 1
            /\ UNCHANGED <<pc, subtreeAgg, runState, fp>>
       ELSE /\ runState' = [runState EXCEPT !.categoryRowsAttempted = @ + 1]
            /\ fp' = [IdleFetch EXCEPT !.sleepMs = CATEGORY_DELAY_MS]
            /\ pc' = "catDelay"
            /\ UNCHANGED <<rowIdx, subtreeAgg>>
    /\ UNCHANGED <<dir, keyValid, config, helpers, calls, fileIdx, lateSignal, master, category, disk, seen,
                   finalized, exited, exitCode, log, logWrites, trigger>>

\* The failure record main's catch appends for the error e.
FailureRecord(e) ==
    [type |-> "categoryFetchFailed",
     subtreeFile |-> CurFile.name,
     subtreeName |-> SubtreeName(CurFile),
     subtreeId |-> SubtreeId(CurFile),
     categoryId |-> CurRow.id,
     categoryName |-> CurRow.name,
     categoryPath |-> CurRow.path,
     message |-> e.message,
     httpStatus |-> e.httpStatus,
     url |-> e.url,
     responseBody |-> e.responseBody]

\* main without the try/catch around the fetch: the error leaves main and
\* reaches main().catch.
CatchFetchError_Rethrow(e, f) ==
    /\ MainCatch
    /\ fp' = f
    /\ UNCHANGED <<pc, rowIdx, subtreeAgg, category, disk, seen>>

\* main's catch going back to the row that failed instead of on to the
\* next one.
CatchFetchError_Retry(e, f) ==
    /\ runState' = [runState EXCEPT !.categoryRowsFailed = @ + 1,
                                    !.failures = Append(@, FailureRecord(e))]
    /\ fp' = f
    /\ pc' = "forRow"
    /\ UNCHANGED <<rowIdx, master, subtreeAgg, category, disk, seen,
                   finalized, exited, exitCode, log, logWrites, trigger>>

\* main's catch around fetchAllItemsForCategory, reached with the error e
\* and fetchPage's locals f: the failure is recorded and the loop goes on
\* with the next row.
\* main's catch with the category's file created before the fetch: the
\* file of a failed category is left behind with its header.
CatchFetchError_FileLeft(e, f) ==
    /\ runState' = [runState EXCEPT !.categoryRowsFailed = @ + 1,
                                    !.failures = Append(@, FailureRecord(e))]
    /\ disk' = CreateFile(disk, CategoryFile(CurFile, CurRow))
    /\ fp' = f
    /\ rowIdx' = rowIdx + 1
    /\ pc' = "forRow"
    /\ UNCHANGED <<master, subtreeAgg, category, seen,
                   finalized, exited, exitCode, log, logWrites, trigger>>

\* main's catch keeping only the record of the last failure.
CatchFetchError_KeepLast(e, f) ==
    /\ runState' = [runState EXCEPT !.categoryRowsFailed = @ + 1,
                                    !.failures = <<FailureRecord(e)>>]
    /\ fp' = f
    /\ rowIdx' = rowIdx + 1
    /\ pc' = "forRow"
    /\ UNCHANGED <<master, subtreeAgg, category, disk, seen,
                   finalized, exited, exitCode, log, logWrites, trigger>>

CatchFetchError(e, f) ==
    /\ runState' = [runState EXCEPT !.categoryRowsFailed = @ + 1,
                                    !.failures = Append(@, FailureRecord(e))]
    /\ fp' = f
    /\ rowIdx' = rowIdx + 1
    /\ pc' = "forRow"
    /\ UNCHANGED <<master, subtreeAgg, category, disk, seen,
                   finalized, exited, exitCode, log, logWrites, trigger>>

\* main after fetchAllItemsForCategory returned f.allItems: the category
\* file is opened, the items are fanned out to the three tiers and the
\* category stream is ended.
CategorySucceeded(f) ==
    LET st == FanOut(f.allItems, CurFile, CurRow,
                     [seenCategory |-> NewSeen(config.dedupeCategory),
                      seenSubtreeAgg |-> seen.subtreeAgg,
                      seenMaster |-> seen.master,
                      catLines |-> <<>>, subLines |-> <<>>, masterLines |-> <<>>])
        catFile == CategoryFile(CurFile, CurRow)
        d1 == CreateFile(disk, catFile)
        d2 == WriteLines(d1, catFile, st.catLines)
        d3 == WriteLines(d2, subtreeAgg.file, st.subLines)
        d4 == WriteLines(d3, master.file, st.masterLines)
    IN  /\ runState' = [runState EXCEPT !.categoryRowsSucceeded = @ + 1]
        /\ category' = EndStream([state |-> "open", file |-> catFile])
        /\ disk' = d4
        /\ seen' = [master |-> st.seenMaster, subtreeAgg |-> st.seenSubtreeAgg]
        /\ fp' = f
        /\ pc' = "catEnd"
        /\ UNCHANGED <<rowIdx, master, subtreeAgg,
                       finalized, exited, exitCode, log, logWrites, trigger>>

(* ------------------------------ fetchPage ------------------------------ *)

\* fetchPage with the header set built once, before the loop, and sent
\* again with every retry.
BeginAttempt_HeadersHoisted(f) ==
    IF f.i < FETCH_ATTEMPTS
    THEN IF buildAuthHeaders = Null
         THEN CatchFetchError(PlainError("sign failed"), f)
         ELSE /\ fp' = [f EXCEPT !.signs = IF f.i = 0 THEN @ + 1 ELSE @,
                                 !.hdr = IF f.i = 0 THEN f.signs + 1 ELSE @,
                                 !.reqs = @ + 1, !.inflight = @ + 1, !.sleepMs = 0]
              /\ pc' = "fetch"
              /\ UNCHANGED <<rowIdx, runState, master, subtreeAgg, category, disk, seen,
                             finalized, exited, exitCode, log, logWrites, trigger>>
    ELSE CatchFetchError(ErrorAfterAttempts(f.url), f)

\* One turn of fetchPage's loop with the locals f, up to the await of
\* fetch: the request is signed and issued; after the last turn the loop
\* is left and the error thrown.
BeginAttempt(f) ==
    IF f.i < FETCH_ATTEMPTS
    THEN IF buildAuthHeaders = Null
         THEN CatchFetchError(PlainError("sign failed"), f)
         ELSE /\ fp' = [f EXCEPT !.signs = @ + 1, !.hdr = f.signs + 1,
                                 !.reqs = @ + 1, !.inflight = @ + 1, !.sleepMs = 0]
              /\ pc' = "fetch"
              /\ UNCHANGED <<rowIdx, runState, master, subtreeAgg, category, disk, seen,
                             finalized, exited, exitCode, log, logWrites, trigger>>
    ELSE CatchFetchError(ErrorAfterAttempts(f.url), f)

BASE ==
    <<"h", "t", "t", "p", "s", ":", "/", "/", "developer.api.walmart.com">>

PAGINATED_PATH == <<"/api-proxy/service/affil/product/v2/paginated/items">>

\* The URL of the first page of a category.
FirstUrl(categoryId) ==
    BASE \o PAGINATED_PATH \o <<"?", "category", "=">> \o categoryId
         \o <<"&", "count", "=", ToString(COUNT_PER_PAGE)>>

\* The URL of the next page: nextPage when absolute, else BASE + nextPage.
NextUrl(nextPage) ==
    IF StartsWith(nextPage, <<"h", "t", "t", "p">>) THEN nextPage ELSE BASE \o nextPage

\* The body read without being awaited: fetchPage goes on while the
\* response is still being consumed.
Consume_NotAwaited(f) == f

\* The request is over: fetch rejected, or the body of its response was
\* read to the end (await res.json(), await res.text()).
Consume(f) == [f EXCEPT !.inflight = @ - 1]

\* The items of a page put in front of the ones collected before.
PushItems_Prepend(allItems, items) == items \o allItems

\* allItems.push(...items): the items of a page are appended.
PushItems(allItems, items) == allItems \o items

\* The loop kept going by the flag alone, whatever the pointer.
HasNextPage_FlagOnly(nextPageExist, nextPage) == nextPageExist

\* The test that keeps fetchAllItemsForCategory's loop going (the negation
\* of the one that breaks it).
HasNextPage(nextPageExist, nextPage) == nextPageExist /\ nextPage # <<>>

\* The inter-category delay is over: fetchAllItemsForCategory(row.id)
\* starts and calls fetchPage for the first page.
CategoryDelayDone ==
    /\ pc = "catDelay"
    /\ ~exited
    /\ calls' = Append(calls, <<fileIdx, rowIdx>>)
    /\ BeginAttempt([IdleFetch EXCEPT !.url = FirstUrl(CurRow.id), !.pageNo = 1])
    /\ UNCHANGED <<dir, keyValid, config, helpers, fileIdx, lateSignal>>

\* fetch resolves with a response of the given status.
FetchResolve(status) ==
    /\ pc = "fetch"
    /\ ~exited
    /\ fp' = [fp EXCEPT !.status = status]
    /\ pc' = IF IsOk(status) THEN "json" ELSE "text"
    /\ UNCHANGED <<dir, keyValid, config, helpers, calls, fileIdx, rowIdx, lateSignal, runState, master,
                   subtreeAgg, category, disk, seen, finalized, exited, exitCode,
                   log, logWrites, trigger>>

\* fetch rejects (no response): the error leaves fetchPage at once.
FetchReject ==
    /\ pc = "fetch"
    /\ ~exited
    /\ CatchFetchError(PlainError("fetch failed"), Consume(fp))
    /\ UNCHANGED <<dir, keyValid, config, helpers, calls, fileIdx, lateSignal>>

\* fetchAllItemsForCategory without `await sleep(REQUEST_DELAY_MS)`: the
\* next page is asked for as soon as a page was received.
JsonResolve_NoDelay(items, nextPageExist, nextPage) ==
    /\ pc = "json"
    /\ ~exited
    /\ LET page == [items |-> items, nextPageExist |-> nextPageExist,
                     nextPage |-> nextPage]
           f == [Consume(fp) EXCEPT !.allItems = PushItems(@, items),
                                    !.served = Append(@, page)]
       IN  IF ~HasNextPage(nextPageExist, nextPage)
           THEN CategorySucceeded(f)
           ELSE BeginAttempt([f EXCEPT !.url = NextUrl(nextPage), !.i = 0,
                                       !.reqs = 0, !.backoffs = 0, !.status = 0,
                                       !.delays = <<>>, !.signs = 0, !.hdr = 0,
                                       !.pageNo = @ + 1])
    /\ UNCHANGED <<dir, keyValid, config, helpers, calls, fileIdx, lateSignal>>

\* res.json() resolves with a page: fetchAllItemsForCategory appends its
\* items and either returns or waits the inter-page delay.
JsonResolve(items, nextPageExist, nextPage) ==
    /\ pc = "json"
    /\ ~exited
    /\ LET page == [items |-> items, nextPageExist |-> nextPageExist,
                     nextPage |-> nextPage]
           f == [Consume(fp) EXCEPT !.allItems = PushItems(@, items),
                                    !.served = Append(@, page)]
       IN  IF ~HasNextPage(nextPageExist, nextPage)
           THEN CategorySucceeded(f)
           ELSE /\ fp' = [f EXCEPT !.url = NextUrl(nextPage),
                                   !.sleepMs = REQUEST_DELAY_MS]
                /\ pc' = "pageDelay"
                /\ UNCHANGED <<rowIdx, runState, master, subtreeAgg, category, disk,
                               seen, finalized, exited, exitCode, log, logWrites,
                               trigger>>
    /\ UNCHANGED <<dir, keyValid, config, helpers, calls, fileIdx, lateSignal>>

\* res.json() rejects: the body of a 2xx response is not JSON.
\* fetchPage treating a body that is no JSON as a transient failure: it
\* backs off and asks again.
JsonReject_Retried ==
    /\ pc = "json"
    /\ ~exited
    /\ fp' = [Consume(fp) EXCEPT !.backoffs = @ + 1,
                                 !.sleepMs = Backoff(fp.i),
                                 !.delays = Append(@, Backoff(fp.i))]
    /\ pc' = "backoff"
    /\ UNCHANGED <<rowIdx, runState, master, subtreeAgg, category, disk, seen,
                   finalized, exited, exitCode, log, logWrites, trigger>>
    /\ UNCHANGED <<dir, keyValid, config, helpers, calls, fileIdx, lateSignal>>

JsonReject ==
    /\ pc = "json"
    /\ ~exited
    /\ CatchFetchError(PlainError("invalid json"), Consume(fp))
    /\ UNCHANGED <<dir, keyValid, config, helpers, calls, fileIdx, lateSignal>>

\* res.text() settles with a body of bodyLen characters: a retryable
\* status starts the backoff delay, any other status throws.
TextResolve(bodyLen) ==
    /\ pc = "text"
    /\ ~exited
    /\ IF IsRetryable(fp.status)
       THEN /\ fp' = [Consume(fp) EXCEPT !.backoffs = @ + 1,
                                         !.sleepMs = Backoff(fp.i),
                                         !.delays = Append(@, Backoff(fp.i))]
            /\ pc' = "backoff"
            /\ UNCHANGED <<rowIdx, runState, master, subtreeAgg, category, disk, seen,
                           finalized, exited, exitCode, log, logWrites, trigger>>
       ELSE CatchFetchError(HttpError(fp.status, fp.url, bodyLen), Consume(fp))
    /\ UNCHANGED <<dir, keyValid, config, helpers, calls, fileIdx, lateSignal>>

\* The backoff delay is over: `continue`, the next turn of the loop.
BackoffDone ==
    /\ pc = "backoff"
    /\ ~exited
    /\ BeginAttempt([fp EXCEPT !.i = @ + 1])
    /\ UNCHANGED <<dir, keyValid, config, helpers, calls, fileIdx, lateSignal>>

\* The inter-page delay is over: fetchPage is called for the next page.
PageDelayDone ==
    /\ pc = "pageDelay"
    /\ ~exited
    /\ BeginAttempt([fp EXCEPT !.i = 0, !.reqs = 0, !.backoffs = 0, !.status = 0,
                               !.delays = <<>>, !.signs = 0, !.hdr = 0,
                               !.pageNo = @ + 1])
    /\ UNCHANGED <<dir, keyValid, config, helpers, calls, fileIdx, lateSignal>>

(* --------------------------- the ends of streams ----------------------- *)

\* The loop going on with the next row while the category stream is still
\* ending: categoryStream.end() not waited for.
CategoryEndDone_NotAwaited ==
    /\ pc = "catEnd"
    /\ ~exited
    /\ rowIdx' = rowIdx + 1
    /\ pc' = "forRow"
    /\ UNCHANGED <<dir, keyValid, config, helpers, calls, fileIdx, lateSignal, runState, master,
                   subtreeAgg, category, disk, seen, fp, finalized, exited, exitCode,
                   log, logWrites, trigger>>

\* categoryStream.end's callback: the loop goes on with the next row.
CategoryEndDone ==
    /\ pc = "catEnd"
    /\ ~exited
    /\ category' = [category EXCEPT !.state = "finished"]
    /\ rowIdx' = rowIdx + 1
    /\ pc' = "forRow"
    /\ UNCHANGED <<dir, keyValid, config, helpers, calls, fileIdx, lateSignal, runState, master, subtreeAgg,
                   disk, seen, fp, finalized, exited, exitCode, log, logWrites,
                   trigger>>

\* subtreeAggStream.end's callback: the subtree file is counted.
SubtreeEndDone ==
    /\ pc = "subtreeEnd"
    /\ ~exited
    /\ subtreeAgg' = [subtreeAgg EXCEPT !.state = "finished"]
    /\ runState' = [runState EXCEPT !.subtreeFilesProcessed = @ + 1]
    /\ fileIdx' = fileIdx + 1
    /\ pc' = "forFile"
    /\ UNCHANGED <<dir, keyValid, config, helpers, calls, rowIdx, lateSignal, master, category, disk, seen,
                   fp, finalized, exited, exitCode, log, logWrites, trigger>>

\* masterStream.end's callback: main calls finalizeAndExit("completed", 0).
\* main calling finalizeAndExit without awaiting the end of the master
\* stream.
MasterEndDone_NotAwaited ==
    /\ pc = "masterEnd"
    /\ ~exited
    /\ finalizeAndExit(runState, master, "completed", 0)
    /\ FirstTrigger("completed")
    /\ UNCHANGED <<dir, keyValid, config, helpers, calls, pc, fileIdx, rowIdx, lateSignal, subtreeAgg,
                   category, disk, seen, fp>>

MasterEndDone ==
    /\ pc = "masterEnd"
    /\ ~exited
    /\ finalizeAndExit(runState, [master EXCEPT !.state = "finished"], "completed", 0)
    /\ FirstTrigger("completed")
    /\ UNCHANGED <<dir, keyValid, config, helpers, calls, pc, fileIdx, rowIdx, lateSignal, subtreeAgg,
                   category, disk, seen, fp>>

(* ---------------------------- exit handlers ---------------------------- *)

\* What the handlers leave alone.
HandlerFrame ==
    UNCHANGED <<dir, keyValid, config, helpers, calls, pc, fileIdx, rowIdx, lateSignal, subtreeAgg,
                category, disk, seen, fp>>

\* A handler runs only while main is suspended and the process lives.
HandlerCanRun == pc \in AwaitPcs /\ ~exited

\* The SIGINT handler writing the log and leaving the process running.
OnSIGINT_NoExit ==
    /\ HandlerCanRun
    /\ finalizeAndExit_NoExit(runState, master, "SIGINT (Ctrl+C)", 130)
    /\ FirstTrigger("SIGINT")
    /\ HandlerFrame

OnSIGINT ==
    /\ HandlerCanRun
    /\ finalizeAndExit(runState, master, "SIGINT (Ctrl+C)", 130)
    /\ FirstTrigger("SIGINT")
    /\ HandlerFrame

\* The SIGTERM handler with SIGINT's exit status.
OnSIGTERM_Exit130 ==
    /\ HandlerCanRun
    /\ finalizeAndExit(runState, master, "SIGTERM", 130)
    /\ FirstTrigger("SIGTERM")
    /\ HandlerFrame

OnSIGTERM ==
    /\ HandlerCanRun
    /\ finalizeAndExit(runState, master, "SIGTERM", 143)
    /\ FirstTrigger("SIGTERM")
    /\ HandlerFrame

\* The record the two error handlers push before they finalize.
ErrorRecord(type) == [type |-> type, message |-> "error"]

OnUncaughtException ==
    /\ HandlerCanRun
    /\ finalizeAndExit([runState EXCEPT !.failures = Append(@, ErrorRecord("uncaughtException"))],
                       master, "uncaughtException", 1)
    /\ FirstTrigger("uncaughtException")
    /\ HandlerFrame

OnUnhandledRejection ==
    /\ HandlerCanRun
    /\ finalizeAndExit([runState EXCEPT !.failures = Append(@, ErrorRecord("unhandledRejection"))],
                       master, "unhandledRejection", 1)
    /\ FirstTrigger("unhandledRejection")
    /\ HandlerFrame

\* A signal sent after process.exit: there is no process to receive it.
SignalAfterExit(sig) ==
    /\ exited
    /\ lateSignal = "none"
    /\ lateSignal' = sig
    /\ UNCHANGED <<dir, keyValid, config, helpers, calls, pc, fileIdx, rowIdx, runState, finalized, exited,
                   exitCode, log, logWrites, trigger, master, subtreeAgg, category,
                   disk, seen, fp>>

(* --------------------------- the specification ------------------------- *)

\* The server serves a continuation pointer on at most MaxPages - 1 pages
\* of one category.
ServerPages ==
    {<<items, more, np>> \in PageMenu \X BOOLEAN \X NextPageMenu :
        (more /\ np # <<>>) => fp.pageNo < MaxPages}

Next ==
    \/ MainStart
    \/ ForFile
    \/ ForRow
    \/ CategoryDelayDone
    \/ \E status \in Statuses : FetchResolve(status)
    \/ FetchReject
    \/ \E page \in ServerPages : JsonResolve(page[1], page[2], page[3])
    \/ JsonReject
    \/ \E bodyLen \in BodyLens : TextResolve(bodyLen)
    \/ BackoffDone
    \/ PageDelayDone
    \/ CategoryEndDone
    \/ SubtreeEndDone
    \/ MasterEndDone
    \/ OnSIGINT
    \/ OnSIGTERM
    \/ OnUncaughtException
    \/ OnUnhandledRejection
    \/ \E sig \in {"SIGINT", "SIGTERM"} : SignalAfterExit(sig)

Spec == Init /\ [][Next]_vars

\* The run against a server that answers every request with a 2xx status
\* and a JSON page, and that stops serving continuation pointers after at
\* most MaxPagesOk pages of a category; no signal and no error arrives,
\* and no await of main stays pending for ever.
MaxPagesOk == 3

ServerPagesOk ==
    {<<items, more, np>> \in PageMenu \X BOOLEAN \X NextPageMenu :
        (more /\ np # <<>>) => fp.pageNo < MaxPagesOk}

InitOk == Init /\ keyValid

NextOk ==
    \/ MainStart
    \/ ForFile
    \/ ForRow
    \/ CategoryDelayDone
    \/ FetchResolve(200)
    \/ \E page \in ServerPagesOk : JsonResolve(page[1], page[2], page[3])
    \/ PageDelayDone
    \/ CategoryEndDone
    \/ SubtreeEndDone
    \/ MasterEndDone

\* main leaves the await it is suspended at: the timer fires, the server
\* answers, the body is read, the stream finishes.
Settles ==
    /\ pc \in AwaitPcs
    /\ ~exited
    /\ pc' \in (AwaitPcs \cup SyncPcs) \ {pc}

SpecOk == InitOk /\ [][NextOk]_vars /\ WF_pc(Settles)

\* The runs that no signal and no fatal error ends: the categories folder
\* exists, holds a .csv file and every file in it can be read; the server
\* answers as it likes, and a fetch ends by returning or by throwing.
RunDirs ==
    {d \in DirMenu :
        /\ d.exists
        /\ \E i \in 1..Len(d.files) : IsCsvName(d.files[i].name)
        /\ \A i \in 1..Len(d.files) : d.files[i].readable}

InitRun ==
    /\ dir \in RunDirs
    /\ keyValid \in BOOLEAN
    /\ config = ShippedConfig
    /\ Started

NextRun ==
    \/ MainStart
    \/ ForFile
    \/ ForRow
    \/ CategoryDelayDone
    \/ \E status \in Statuses : FetchResolve(status)
    \/ FetchReject
    \/ \E page \in ServerPages : JsonResolve(page[1], page[2], page[3])
    \/ JsonReject
    \/ \E bodyLen \in BodyLens : TextResolve(bodyLen)
    \/ BackoffDone
    \/ PageDelayDone
    \/ CategoryEndDone
    \/ SubtreeEndDone
    \/ MasterEndDone

\* Where main is, and whether the process has ended.
pos == <<pc, fileIdx, rowIdx, exited>>

\* The process lives and main moves on: synchronous code runs to its next
\* await, and the timer, request, body or stream main awaits settles.
Moves ==
    /\ ~exited
    /\ pc' \in AwaitPcs \cup SyncPcs
    /\ fileIdx' \in {fileIdx, fileIdx + 1}
    /\ rowIdx' \in {rowIdx, rowIdx + 1, 1}
    /\ exited' \in BOOLEAN

SpecRun == InitRun /\ [][NextRun]_vars /\ WF_pos(Moves)

\* The same server, and the program started with any dedup settings: the
\* three constants are the configuration block of the source, set before
\* a run.
Configs ==
    [dedupeCategory : BOOLEAN, dedupeSubtreeAgg : BOOLEAN, dedupeMaster : BOOLEAN]

InitCfg ==
    /\ dir \in DirMenu
    /\ keyValid = TRUE
    /\ config \in Configs
    /\ Started

SpecCfg == InitCfg /\ [][NextOk]_vars

\* The characters of the fields written and parsed: a plain character and
\* the four the CSV format gives a meaning to.
CsvChars == {"a", ",", "\"", "\n", "\r"}

\* A field holds at most MaxFieldLen characters.
MaxFieldLen == 3

CsvFields == UNION {[1..n -> CsvChars] : n \in 0..MaxFieldLen}

\* The rows written: one field, or a field next to a field of at most one
\* character, on either side.
CsvRows ==
    LET short == {f \in CsvFields : Len(f) <= 1}
    IN  {<<f>> : f \in CsvFields}
        \cup {<<f, g>> : f \in CsvFields, g \in short}
        \cup {<<g, f>> : f \in CsvFields, g \in short}

\* A row is handed to rowToCSVLine and the line to parseCSV.
InitCsvCall ==
    /\ csv \in {[step |-> "row", row |-> r, line |-> <<>>, parsed |-> <<>>] :
                  r \in CsvRows}
    /\ fname = IdleName
    /\ auth = IdleAuth
    /\ kr = IdleKroger
    /\ MainAside

WriteCsvLine ==
    /\ csv.step = "row"
    /\ csv' = [csv EXCEPT !.step = "written", !.line = rowToCSVLine(csv.row)]
    /\ UNCHANGED <<mainVars, fname, auth, kr>>

ParseCsvLine ==
    /\ csv.step = "written"
    /\ csv' = [csv EXCEPT !.step = "parsed", !.parsed = parseCSV(csv.line)]
    /\ UNCHANGED <<mainVars, fname, auth, kr>>

NextCsvCall == WriteCsvLine \/ ParseCsvLine

SpecCsv == InitCsvCall /\ [][NextCsvCall]_vars

\* The credentials buildAuthHeaders may find in keyData: an identifier and
\* a key version, with or without spaces around them.
KeyDataMenu ==
    [consumerId : {<<"c">>, <<" ", "c">>, <<"d">>},
     keyVer : {<<"5">>, <<"5", " ">>, <<"1", "2">>},
     privateKeyPem : {"pem"}]

\* The values Date.now() may give.
ClockMenu == {7, 12, 13}

\* buildAuthHeaders is called at most MaxAuthCalls times.
MaxAuthCalls == 2

InitAuthCall ==
    /\ auth \in {[keyData |-> kd, calls |-> <<>>] : kd \in KeyDataMenu}
    /\ csv = IdleCsv
    /\ fname = IdleName
    /\ kr = IdleKroger
    /\ MainAside

\* One call of buildAuthHeaders: the clock is read and the headers built.
BuildAuthHeaders ==
    /\ auth.keyData # Null
    /\ Len(auth.calls) < MaxAuthCalls
    /\ \E now \in ClockMenu, salt \in Salts("RSA_PKCS1_PADDING") :
          auth' = [auth EXCEPT !.calls =
                      Append(@, [now |-> now] @@ buildAuthHeadersAt(auth.keyData, now, salt))]
    /\ UNCHANGED <<mainVars, csv, fname, kr>>

SpecAuth == InitAuthCall /\ [][BuildAuthHeaders]_vars

\* The names and ids of the leaf rows of a subtree file: names that differ
\* in a character sanitizeFilename replaces, and a name and an id that
\* share an underscore differently.
LeafMenu ==
    { [id |-> <<"1">>, name |-> <<"A", " ", "b">>],
      [id |-> <<"1">>, name |-> <<"A", "/", "b">>],
      [id |-> <<"b", "_", "1">>, name |-> <<"A">>],
      [id |-> <<"2">>, name |-> <<"A", " ", "b">>] }

\* The directories with one subtree file: a root and two leaf rows that
\* differ in name or id.
LeafDirs ==
    UNION { { [exists |-> TRUE,
               files |-> <<File(<<"r", ".", "c", "s", "v">>, TRUE,
                                <<Obj(<<"9">>, <<"R">>, <<"r">>),
                                  Obj(x.id, x.name, <<"r", "/", "x">>),
                                  Obj(y.id, y.name, <<"r", "/", "y">>)>>)>>] :
              y \in LeafMenu \ {x} } :
            x \in LeafMenu }

\* The runs over these directories against the server that answers every
\* request with a page.
InitLeaves ==
    /\ dir \in LeafDirs
    /\ keyValid = TRUE
    /\ config = ShippedConfig
    /\ Started

SpecLeaves == InitLeaves /\ [][NextOk]_vars

\* fetchProductsForTerm is called, in a dry run or not, with a token in
\* the cache of the token manager or none.
InitKrogerCall ==
    /\ kr \in {[IdleKroger EXCEPT !.pc = "start", !.dryRun = d, !.accessToken = a,
                                  !.expiresAt = IF a = 0 THEN "0" ELSE "later"] :
                 d \in BOOLEAN, a \in {0, 1}}
    /\ csv = IdleCsv
    /\ fname = IdleName
    /\ auth = IdleAuth
    /\ MainAside

KrogerFrame == UNCHANGED <<mainVars, csv, fname, auth>>

KrogerStart ==
    /\ kr.pc = "start"
    /\ \E expiring \in BOOLEAN : kr' = ForPage(kr, expiring)
    /\ KrogerFrame

\* The token request of getToken is answered: the token is cached and
\* fetchWithRetry called with it, or getToken throws.
KrogerTokenResolve ==
    /\ kr.pc = "token"
    /\ \E ok \in BOOLEAN :
          kr' = IF ok
                THEN fetchWithRetry([kr EXCEPT !.accessToken = @ + 1,
                                                !.expiresAt = "later"],
                                    kr.call, kr.accessToken + 1)
                ELSE [kr EXCEPT !.pc = "thrown", !.code = "TOKEN"]
    /\ KrogerFrame

\* The request of fetchWithRetry is answered with a status and, when the
\* status is 2xx, a page of len items.
KrogerFetchResolve ==
    /\ kr.pc = "request"
    /\ \E status \in KrogerStatuses, len \in PageLens, expiring \in BOOLEAN :
          kr' = LET k == [kr EXCEPT !.status = status]
                IN  IF status = 429
                    THEN [k EXCEPT !.pc = "wait", !.sleepMs = RETRY_DELAY_MS * k.attempt]
                    ELSE IF status = 401
                    THEN IF k.call = 1
                         THEN getToken([k EXCEPT !.expiresAt = "0"], 2, expiring)
                         ELSE [k EXCEPT !.pc = "thrown", !.code = "UNAUTHORIZED"]
                    ELSE IF ~IsOk(status)
                    THEN IF k.attempt < MAX_RETRIES
                         THEN [k EXCEPT !.pc = "wait", !.sleepMs = RETRY_DELAY_MS]
                         ELSE [k EXCEPT !.pc = "thrown", !.code = "HTTP"]
                    ELSE IF len < PAGE_LIMIT
                         THEN [k EXCEPT !.products = @ + len, !.pc = "returned"]
                         ELSE [k EXCEPT !.products = @ + len, !.pc = "pageDelay",
                                        !.sleepMs = KROGER_REQUEST_DELAY_MS]
    /\ KrogerFrame

\* fetch rejects, or the body of a 2xx answer is no JSON.
KrogerFetchReject ==
    /\ kr.pc = "request"
    /\ kr' = [kr EXCEPT !.pc = "thrown", !.code = "OTHER"]
    /\ KrogerFrame

\* The wait of fetchWithRetry ending with one attempt more than
\* MAX_RETRIES allowed.
KrogerWaitDone_OneMore ==
    /\ kr.pc = "wait"
    /\ kr' = IF kr.attempt + 1 <= MAX_RETRIES + 1
             THEN [kr EXCEPT !.pc = "request", !.attempt = @ + 1, !.reqs = @ + 1,
                             !.status = 0, !.sleepMs = 0]
             ELSE [kr EXCEPT !.pc = "thrown", !.code = "RETRIES", !.sleepMs = 0]
    /\ KrogerFrame

\* The wait of fetchWithRetry is over: the next attempt, or the throw
\* after the loop.
KrogerWaitDone ==
    /\ kr.pc = "wait"
    /\ kr' = IF kr.attempt + 1 <= MAX_RETRIES
             THEN [kr EXCEPT !.pc = "request", !.attempt = @ + 1, !.reqs = @ + 1,
                             !.status = 0, !.sleepMs = 0]
             ELSE [kr EXCEPT !.pc = "thrown", !.code = "RETRIES", !.sleepMs = 0]
    /\ KrogerFrame

\* The delay after a full page is over: the next turn of the loop.
KrogerPageDelayDone ==
    /\ kr.pc = "pageDelay"
    /\ \E expiring \in BOOLEAN :
          kr' = ForPage([kr EXCEPT !.page = @ + 1, !.sleepMs = 0], expiring)
    /\ KrogerFrame

NextKroger ==
    \/ KrogerStart
    \/ KrogerTokenResolve
    \/ KrogerFetchResolve
    \/ KrogerFetchReject
    \/ KrogerWaitDone
    \/ KrogerPageDelayDone

SpecKroger == InitKrogerCall /\ [][NextKroger]_vars

\* The characters of the values handed to sanitizeFilename: a letter, the
\* hyphen, the underscore, the space and a character outside the class.
NameChars == {"a", "-", "_", " ", "/"}

\* The tail of a value holds at most MaxTailLen characters.
MaxTailLen == 3

NameTails == UNION {[1..n -> NameChars] : n \in 0..MaxTailLen}

\* The values: a tail alone, and a tail after as many letters as bring it
\* to the cut at FILENAME_MAX_CHARS.
NameValues ==
    NameTails \cup
    {[i \in 1..(FILENAME_MAX_CHARS - 1) |-> "a"] \o t : t \in NameTails}

InitNameCall ==
    /\ fname \in {[step |-> "value", value |-> v, result |-> <<>>] : v \in NameValues}
    /\ csv = IdleCsv
    /\ auth = IdleAuth
    /\ kr = IdleKroger
    /\ MainAside

SanitizeName ==
    /\ fname.step = "value"
    /\ fname' = [fname EXCEPT !.step = "result", !.result = sanitizeFilename(fname.value)]
    /\ UNCHANGED <<mainVars, csv, auth, kr>>

SpecName == InitNameCall /\ [][SanitizeName]_vars

\* The rows a subtree file may hold: rows below one another, a path with
\* a trailing separator, an empty path and a path below it, a blank id,
\* an empty name, and a path with a space before it.
ObjMenu ==
    { Obj(<<"1">>, <<"A">>, <<"a">>),
      Obj(<<"2">>, <<"B">>, <<"a", "/", "b">>),
      Obj(<<"3">>, <<"C">>, <<"a", "/", "b", "/", "c">>),
      Obj(<<"4">>, <<"D">>, <<"a", "/">>),
      Obj(<<"5">>, <<"E">>, <<>>),
      Obj(<<"6">>, <<"F">>, <<"/", "x">>),
      Obj(<<" ">>, <<"G">>, <<"a", "/", "z">>),
      Obj(<<"8">>, <<>>, <<"a", "/", "y">>),
      Obj(<<"9">>, <<"H">>, <<" ", "a">>) }

\* A subtree file holds at most MaxRows rows.
MaxRows == 3

ObjSeqs == UNION {[1..n -> ObjMenu] : n \in 0..MaxRows}

\* The directories of the runs over subtree files: a file of any rows,
\* followed by a file with a root and a leaf.
TreeDirs ==
    { [exists |-> TRUE,
       files |-> <<File(<<"s", ".", "c", "s", "v">>, TRUE, objs), FileThree>>] :
      objs \in ObjSeqs }

\* A run over such a directory with a key that does not sign: every call
\* of fetchAllItemsForCategory throws before a request is made.
InitTree ==
    /\ dir \in TreeDirs
    /\ keyValid = FALSE
    /\ config = ShippedConfig
    /\ Started

NextTree ==
    \/ MainStart
    \/ ForFile
    \/ ForRow
    \/ CategoryDelayDone
    \/ SubtreeEndDone
    \/ MasterEndDone

SpecTree == InitTree /\ [][NextTree]_vars

(* ------------------------------ the claims ----------------------------- *)

Failures == runState.failures

LastFailure == Failures[Len(Failures)]

CategoryFailures ==
    {k \in 1..Len(Failures) : Failures[k].type = "categoryFetchFailed"}

\* The statuses the retry policy names: 429 and 5xx.
TransientStatus(status) == status = 429 \/ status \in 500..599

\* The pcs at which main is inside fetchAllItemsForCategory or in the
\* delay before it.
FetchPcs == {"catDelay", "fetch", "json", "text", "backoff", "pageDelay"}

\* C1: in every reachable state, and in the counts of the run log,
\* categoryRowsSucceeded + categoryRowsFailed = categoryRowsAttempted.
C1_CountersBalanced ==
    /\ runState.categoryRowsSucceeded + runState.categoryRowsFailed
         = runState.categoryRowsAttempted
    /\ log # Null =>
         log[1].counts.categoryRowsSucceeded + log[1].counts.categoryRowsFailed
           = log[1].counts.categoryRowsAttempted

\* C2: when the process has exited, whatever the trigger, no writer of any
\* tier is left open: each was never opened, or was ended.
C2_NoWriterOpenAtExit ==
    exited =>
        /\ master.state # "open"
        /\ subtreeAgg.state # "open"
        /\ category.state # "open"

\* The exit reason finalizeAndExit is given on each exit path.
ReasonOf(t) ==
    CASE t = "completed" -> "completed"
      [] t = "SIGINT" -> "SIGINT (Ctrl+C)"
      [] t = "SIGTERM" -> "SIGTERM"
      [] t = "uncaughtException" -> "uncaughtException"
      [] t = "unhandledRejection" -> "unhandledRejection"
      [] t = "mainError" -> "main() catch"

C4_FinalizeOnce ==
    /\ [](logWrites <= 1)
    /\ [][finalized =>
            /\ finalized'
            /\ logWrites' = logWrites
            /\ log' = log
            /\ runState'.endedAt = runState.endedAt
            /\ runState'.exitReason = runState.exitReason
            /\ exitCode' = exitCode
            /\ exited' = exited]_vars

\* C4 witness: a second signal was sent after finalization; the log was
\* written once and the status is the first trigger's.
C4_Witness ==
    /\ finalized
    /\ exited
    /\ trigger = "SIGINT"
    /\ lateSignal = "SIGTERM"
    /\ logWrites = 1
    /\ exitCode = 130

\* The rows of a subtree file that main attempts: the loaded rows that are
\* no parent rows.
EligibleRows(file) ==
    LET rows == LoadedRows(file.objs)
    IN  Cardinality({k \in 1..Len(rows) : EXPORT_PARENT_ROWS_TOO \/ ~isParentRow(rows, rows[k])})

RECURSIVE EligibleTotal(_)
EligibleTotal(files) ==
    IF files = <<>> THEN 0 ELSE EligibleRows(Head(files)) + EligibleTotal(Tail(files))

\* C5: a failed category fetch never ends the run: while main is in a
\* fetch the process ends only through a signal or an uncaught-error
\* handler; the step that counts the failure appends one
\* categoryFetchFailed record, writes nothing, and goes to the next row;
\* and a run that completes has attempted every eligible row of every
\* subtree file, whatever failed.
C5_CategoryFailureNotFatal ==
    /\ [](trigger = "completed" =>
            runState.categoryRowsAttempted = EligibleTotal(SubtreeFiles))
    /\ [][(pc \in FetchPcs /\ ~exited) =>
            /\ exited' => trigger' \in {"SIGINT", "SIGTERM", "uncaughtException",
                                         "unhandledRejection"}
            /\ (pc' \notin FetchPcs /\ pc' # "catEnd") =>
                 /\ ~exited'
                 /\ pc' = "forRow"
                 /\ rowIdx' = rowIdx + 1
                 /\ fileIdx' = fileIdx
                 /\ runState'.categoryRowsFailed = runState.categoryRowsFailed + 1
                 /\ runState'.categoryRowsAttempted = runState.categoryRowsAttempted
                 /\ Len(runState'.failures) = Len(Failures) + 1
                 /\ SubSeq(runState'.failures, 1, Len(Failures)) = Failures
                 /\ runState'.failures[Len(Failures) + 1].type = "categoryFetchFailed"
                 /\ runState'.failures[Len(Failures) + 1].categoryId = CurRow.id
                 /\ disk' = disk
                 /\ seen' = seen
                 /\ category' = category]_vars

\* C5 witness: the first category failed on a non-retryable status, a
\* later one was fetched and written, and the run completed.
C5_Witness ==
    /\ trigger = "completed"
    /\ runState.categoryRowsAttempted = 2
    /\ runState.categoryRowsFailed = 1
    /\ runState.categoryRowsSucceeded = 1
    /\ Failures[1].httpStatus = Some(404)
    /\ category.state = "finished"

\* C6: a signing failure ends the run with exit code 1 at the first
\* category: no request is issued, no failure is counted for the
\* category and no further category is attempted.
C6_SigningFailureIsFatal ==
    (~keyValid /\ runState.categoryRowsAttempted > 0 /\ pc # "catDelay") =>
        /\ exited
        /\ exitCode = 1
        /\ runState.categoryRowsFailed = 0
        /\ runState.categoryRowsAttempted = 1
        /\ fp.reqs = 0

\* The exit status each trigger is to give.
StatusOf(t) ==
    CASE t = "completed" -> 0
      [] t = "SIGINT" -> 130
      [] t = "SIGTERM" -> 143
      [] OTHER -> 1

\* C7: the exit status is 0 on normal completion, 130 on SIGINT, 143 on
\* SIGTERM and 1 on an uncaught exception, an unhandled rejection or an
\* error thrown out of main.
C7_ExitStatusReflectsTrigger ==
    exited => (trigger # "none" /\ exitCode = StatusOf(trigger))

\* C7 witness: SIGTERM during a backoff delay ended the process with 143.
C7_Witness ==
    /\ exited
    /\ trigger = "SIGTERM"
    /\ pc = "backoff"
    /\ exitCode = 143

\* C8: fetchPage issues at most FETCH_ATTEMPTS requests for one page URL; it
\* issues a retry only after a 429 or 5xx response; and it leaves its loop
\* by the final throw exactly when FETCH_ATTEMPTS requests were issued
\* and each received a retryable status.
C8_RetryOnlyTransientUpToCeiling ==
    /\ [](fp.reqs <= FETCH_ATTEMPTS)
    /\ [][/\ (pc = "backoff" /\ pc' = "fetch") =>
               (TransientStatus(fp.status) /\ fp'.reqs = fp.reqs + 1
                  /\ fp.reqs < FETCH_ATTEMPTS)
          /\ (pc = "text" /\ pc' = "backoff") => TransientStatus(fp.status)
          /\ (pc = "backoff" /\ pc' # "backoff" /\ pc' # "fetch") =>
               /\ fp.reqs = FETCH_ATTEMPTS
               /\ fp.backoffs = FETCH_ATTEMPTS
               /\ pc' = "forRow"
               /\ runState'.categoryRowsFailed = runState.categoryRowsFailed + 1
               /\ runState'.failures[Len(Failures) + 1].message = "Failed after attempts"
          /\ (pc = "backoff" /\ fp.reqs = FETCH_ATTEMPTS) => pc' # "fetch"]_vars

\* C8 witness: FETCH_ATTEMPTS requests of one page were each answered
\* with a retryable status, and fetchPage threw.
C8_Witness ==
    /\ pc = "forRow"
    /\ fp.reqs = FETCH_ATTEMPTS
    /\ fp.backoffs = FETCH_ATTEMPTS
    /\ Failures # <<>>
    /\ LastFailure.type = "categoryFetchFailed"
    /\ LastFailure.message = "Failed after attempts"

\* C9: the failure record of a category whose fetch gave up after
\* exhausting its attempts has a non-null httpStatus, url and responseBody.
C9_ExhaustedErrorCarriesStatus ==
    \A k \in CategoryFailures :
        Failures[k].message = "Failed after attempts" =>
            /\ Failures[k].httpStatus # Null
            /\ Failures[k].url # Null
            /\ Failures[k].responseBody # Null

\* C10: on a non-2xx status other than 429 and 5xx fetchPage throws at
\* once: the request that received it is the last of its page (one
\* request per attempt, none after it), no backoff delay is started, and
\* the failure record carries the status, the URL and the truncated body.
C10_ClientErrorFailsAtOnce ==
    /\ [](pc = "text" => fp.reqs = fp.backoffs + 1)
    /\ [][(pc = "text" /\ ~TransientStatus(fp.status) /\ pc' # "text") =>
            /\ pc' = "forRow"
            /\ fp'.reqs = fp.reqs
            /\ fp'.backoffs = fp.backoffs
            /\ fp'.sleepMs = 0
            /\ runState'.categoryRowsFailed = runState.categoryRowsFailed + 1
            /\ Len(runState'.failures) = Len(Failures) + 1
            /\ LET rec == runState'.failures[Len(Failures) + 1]
               IN  /\ rec.type = "categoryFetchFailed"
                   /\ rec.httpStatus = Some(fp.status)
                   /\ rec.url = Some(fp.url)
                   /\ rec.responseBody # Null
                   /\ rec.responseBody[1].len <= MAX_ERROR_BODY_CHARS
                        \/ rec.responseBody[1].truncated]_vars

\* C10 witness: the first response of a page was a 404 with a long body;
\* one request was issued, no backoff waited, and the record holds the
\* status and the truncated body.
C10_Witness ==
    /\ pc = "forRow"
    /\ fp.reqs = 1
    /\ fp.backoffs = 0
    /\ Failures # <<>>
    /\ LastFailure.type = "categoryFetchFailed"
    /\ LastFailure.httpStatus = Some(404)
    /\ LastFailure.url = Some(fp.url)
    /\ LastFailure.responseBody # Null
    /\ LastFailure.responseBody[1].truncated

\* C11: when a page's request is answered 2xx after k retryable responses
\* (k < FETCH_ATTEMPTS), fetchPage has made exactly k + 1 requests for the
\* page and has waited k backoff delays, the first RETRY_BASE_DELAY_MS and
\* each later one twice the one before it (500, 1000, 2000 for k = 3).
C11_RetriesThenSuccess ==
    pc = "json" =>
        /\ Len(fp.delays) < FETCH_ATTEMPTS
        /\ fp.reqs = Len(fp.delays) + 1
        /\ \A j \in 1..Len(fp.delays) :
              fp.delays[j] = IF j = 1 THEN RETRY_BASE_DELAY_MS
                                      ELSE 2 * fp.delays[j - 1]

\* Three retryable responses, then a 2xx response to the fourth request.
C11_Witness ==
    /\ pc = "json"
    /\ fp.reqs = 4
    /\ fp.delays = <<500, 1000, 2000>>

\* A step that issues an HTTP request.
IssuesRequest == pc # "fetch" /\ pc' = "fetch"

\* C12: every HTTP request is issued in the step that follows the end of a
\* delay (the inter-category delay, the inter-page delay or the backoff of
\* the previous attempt), when no earlier request is outstanding, and that
\* step makes its own buildAuthHeaders call: the n-th request for a page
\* carries the n-th header set built for it, never an earlier one.
C12_FreshHeadersPerRequest ==
    [][IssuesRequest =>
          /\ pc \in {"catDelay", "backoff", "pageDelay"}
          /\ fp.inflight = 0
          /\ fp'.signs = (IF pc = "backoff" THEN fp.signs ELSE 0) + 1
          /\ fp'.reqs = (IF pc = "backoff" THEN fp.reqs ELSE 0) + 1
          /\ fp'.hdr = fp'.signs
          /\ fp'.hdr = fp'.reqs]_vars

\* The third request for the second page of a category is in flight, with
\* the third header set built for that page.
C12_Witness ==
    /\ pc = "fetch"
    /\ fp.pageNo = 2
    /\ fp.reqs = 3
    /\ fp.hdr = 3
    /\ fp.signs = 3

\* The items of the pages, concatenated in page order.
RECURSIVE ConcatPages(_)
ConcatPages(pages) ==
    IF pages = <<>> THEN <<>>
    ELSE ConcatPages(SubSeq(pages, 1, Len(pages) - 1)) \o pages[Len(pages)].items

\* The page carries a continuation: its flag is true and its pointer is
\* not empty.
Continues(page) == page.nextPageExist /\ page.nextPage # <<>>

\* C13: against a server whose every answer is a 2xx page and whose
\* continuation stops, every call of fetchAllItemsForCategory returns; when
\* it returns it made one request per page, the n pages received are the
\* pages up to the first one without a continuation, and the result is
\* their items concatenated in page order.
C13_PaginationTerminates ==
    /\ [](pc \in {"fetch", "json"} => fp.reqs = 1)
    /\ [](pc = "catEnd" =>
            /\ Len(fp.served) = fp.pageNo
            /\ \A k \in 1..Len(fp.served) :
                  Continues(fp.served[k]) <=> k < Len(fp.served)
            /\ fp.allItems = ConcatPages(fp.served))
    /\ (pc = "catDelay") ~> (pc = "catEnd")

\* Three pages of 4, 4 and 1 items were received with three requests and
\* the 9 items returned.
C13_Witness ==
    /\ pc = "catEnd"
    /\ fp.pageNo = 3
    /\ Len(fp.served) = 3
    /\ Len(fp.served[1].items) = 4
    /\ Len(fp.served[2].items) = 4
    /\ Len(fp.served[3].items) = 1
    /\ Len(fp.allItems) = 9

\* The URL a continuation pointer stands for: the pointer itself when it is
\* absolute, the API base followed by the pointer when it is relative.
PointerUrl(nextPage) ==
    IF Len(nextPage) >= 4 /\ SubSeq(nextPage, 1, 4) = <<"h", "t", "t", "p">>
    THEN nextPage
    ELSE <<"h", "t", "t", "p", "s", ":", "/", "/", "developer.api.walmart.com">>
         \o nextPage

\* C14: when a page has been received, fetchAllItemsForCategory goes on to
\* a further request exactly when the page's nextPageExist is true and its
\* nextPage is not empty, and otherwise returns; the further request, made
\* when the inter-page delay is over, goes to the URL the pointer stands
\* for.
C14_ContinuationDrivesLoop ==
    /\ [][(pc = "json" /\ Len(fp'.served) = Len(fp.served) + 1) =>
             LET page == fp'.served[Len(fp'.served)]
             IN  IF page.nextPageExist /\ page.nextPage # <<>>
                 THEN /\ pc' = "pageDelay"
                      /\ fp'.url = PointerUrl(page.nextPage)
                 ELSE pc' = "catEnd"]_vars
    /\ [][(pc = "pageDelay" /\ pc' # "pageDelay" /\ ~exited') =>
             /\ pc' = "fetch"
             /\ fp'.url = fp.url
             /\ fp'.pageNo = fp.pageNo + 1]_vars

\* The request for the second page is in flight, at the API base followed
\* by the relative pointer the first page carried.
C14_Witness ==
    /\ pc = "fetch"
    /\ fp.pageNo = 2
    /\ Len(fp.served) = 1
    /\ fp.served[1].nextPageExist
    /\ fp.served[1].nextPage = <<"/", "n">>
    /\ fp.url = BASE \o <<"/", "n">>

\* C15: at most one HTTP request is outstanding at any moment: a request
\* is outstanding exactly while main is suspended on its fetch or on the
\* reading of its response, and none is issued before the one before it
\* is over.
C15_OneRequestOutstanding ==
    /\ fp.inflight \in {0, 1}
    /\ fp.inflight = 1 <=> pc \in {"fetch", "json", "text"}

\* The second request for a page is outstanding, the first one over.
C15_Witness ==
    /\ pc = "fetch"
    /\ ~exited
    /\ fp.reqs = 2
    /\ fp.inflight = 1

\* C16: the first request of a category is issued when the inter-category
\* delay (CATEGORY_DELAY_MS) is over; the first request for any later page
\* is issued when the inter-page delay (REQUEST_DELAY_MS) is over, a delay
\* started when the page before it was received; and when the last page
\* of a category is received no delay is started.
C16_RateLimitSpacing ==
    /\ [][(IssuesRequest /\ fp'.reqs = 1) =>
             IF fp'.pageNo = 1
             THEN pc = "catDelay" /\ fp.sleepMs = CATEGORY_DELAY_MS
             ELSE /\ pc = "pageDelay"
                  /\ fp.sleepMs = REQUEST_DELAY_MS
                  /\ Len(fp.served) = fp.pageNo]_vars
    /\ [][(pc' = "pageDelay" /\ pc # "pageDelay") =>
             /\ pc = "json"
             /\ Len(fp'.served) = Len(fp.served) + 1
             /\ fp'.sleepMs = REQUEST_DELAY_MS]_vars
    /\ [][(pc = "json" /\ pc' = "catEnd") => fp'.sleepMs = 0]_vars

\* The second category of the run has received its first page and waits
\* the inter-page delay before it asks for the second.
C16_Witness ==
    /\ pc = "pageDelay"
    /\ ~exited
    /\ Len(calls) = 2
    /\ fp.pageNo = 1
    /\ Len(fp.served) = 1
    /\ fp.sleepMs = REQUEST_DELAY_MS

\* The rows main attempts in a run that reads every subtree file: the
\* <<file index, row index>> of every loaded row that is no parent row.
EligiblePairs ==
    UNION { LET rows == LoadedRows(SubtreeFiles[f].objs)
            IN  {<<f, r>> : r \in {k \in 1..Len(rows) :
                     EXPORT_PARENT_ROWS_TOO \/ ~isParentRow(rows, rows[k])}}
            : f \in 1..Len(SubtreeFiles) }

\* C17: fetchAllItemsForCategory is called at most once for a loaded row,
\* and only for rows main attempts: a row whose fetch failed is not asked
\* for again; when the run has completed it was called exactly once for
\* every eligible row of every subtree file.
C17_FetchedOncePerRow ==
    /\ \A i, j \in 1..Len(calls) : i # j => calls[i] # calls[j]
    /\ \A i \in 1..Len(calls) : calls[i] \in EligiblePairs
    /\ trigger = "completed" =>
          /\ {calls[i] : i \in 1..Len(calls)} = EligiblePairs
          /\ Len(calls) = Cardinality(EligiblePairs)

\* A run over two rows of one subtree file has completed; both fetches
\* failed and each row was asked for once.
C17_Witness ==
    /\ trigger = "completed"
    /\ Len(calls) = 2
    /\ calls[1][1] = calls[2][1]
    /\ calls[2][2] = calls[1][2] + 1
    /\ runState.categoryRowsFailed = 2

\* The categories processed so far: the calls of fetchAllItemsForCategory
\* that have ended, by returning or by throwing.
Processed ==
    Len(calls) - (IF pc \in {"fetch", "json", "text", "backoff", "pageDelay"}
                  THEN 1 ELSE 0)

RowsOfCurrentCategory ==
    {<<name, k>> \in UNION {{name} \X (1..Len(disk[name])) : name \in DOMAIN disk} :
        /\ disk[name][k].kind = "row"
        /\ disk[name][k].category_id = CurRow.id}

\* C19: once SIGINT or SIGTERM has been handled while a request was in
\* flight or a delay pending, no request is issued, no line is written to
\* any file, no counter of runState changes and main does not move on; the
\* category that was being fetched has no row in any file, whatever pages
\* of it had been received.
C19_CancellationAbandons ==
    /\ [][(trigger \in {"SIGINT", "SIGTERM"}) =>
             (/\ pc' = pc
              /\ fp' = fp
              /\ calls' = calls
              /\ disk' = disk
              /\ runState' = runState)]_vars
    /\ []((trigger \in {"SIGINT", "SIGTERM"} /\ pc \in FetchPcs) =>
             RowsOfCurrentCategory = {})

\* SIGTERM ended the run while the request for the second page of a
\* category was in flight, after an earlier category had been written:
\* the items of the first page are held in memory only.
C19_Witness ==
    /\ exited
    /\ trigger = "SIGTERM"
    /\ pc = "fetch"
    /\ fp.pageNo = 2
    /\ fp.allItems # <<>>
    /\ runState.categoryRowsSucceeded = 1
    /\ lateSignal = "SIGINT"

\* The item ids of the rows of the category catId in the lines of a file,
\* in the order they were written.
RECURSIVE IdsOf(_, _)
IdsOf(lines, catId) ==
    IF lines = <<>> THEN <<>>
    ELSE LET l == Head(lines)
         IN  (IF l.kind = "row" /\ l.category_id = catId THEN <<l.item_id>> ELSE <<>>)
             \o IdsOf(Tail(lines), catId)

\* The item ids a file holds from the categories written before catId.
EarlierIds(lines, catId) ==
    {lines[k].item_id : k \in {n \in 1..Len(lines) :
        lines[n].kind = "row" /\ lines[n].category_id # catId}}

\* What a tier writes of the item ids when it decides on its own: an id
\* is written when the tier's dedup is off or the tier has not seen it.
RECURSIVE TierWrites(_, _, _)
TierWrites(dedupe, seenIds, ids) ==
    IF ids = <<>> THEN <<>>
    ELSE IF dedupe /\ Head(ids) \in seenIds
         THEN TierWrites(dedupe, seenIds, Tail(ids))
         ELSE <<Head(ids)>> \o TierWrites(dedupe, seenIds \cup {Head(ids)}, Tail(ids))

\* C20: when a category has been written, each tier holds of its item
\* occurrences with a non-empty id what the tier's own dedup setting and
\* own seen-set select: the category file with the category's setting
\* and a seen-set that starts empty, the subtree-aggregate file and the
\* master file with their settings and the ids they hold from earlier
\* categories.  With master dedup off the master file holds every
\* occurrence, repeats inside the category included.
C20_TiersDecideIndependently ==
    pc = "catEnd" =>
        LET ids == SelectSeq(fp.allItems, LAMBDA id : id # "")
            cat == disk[category.file]
            sub == disk[subtreeAgg.file]
            mas == disk[master.file]
        IN  /\ IdsOf(cat, CurRow.id)
                  = TierWrites(DEDUPE_WITHIN_EACH_CATEGORY_CSV, {}, ids)
            /\ IdsOf(sub, CurRow.id)
                  = TierWrites(DEDUPE_WITHIN_SUBTREE_AGG,
                               EarlierIds(sub, CurRow.id), ids)
            /\ IdsOf(mas, CurRow.id)
                  = TierWrites(DEDUPE_MASTER, EarlierIds(mas, CurRow.id), ids)

\* The item ids of the rows in the lines of a file, in order.
RowIds(lines) ==
    LET rows == SelectSeq(lines, LAMBDA l : l.kind = "row")
    IN  [k \in 1..Len(rows) |-> rows[k].item_id]

\* No item id stands in two rows of the lines.
NoRepeat(lines) ==
    LET ids == RowIds(lines)
    IN  \A i, j \in 1..Len(ids) : i # j => ids[i] # ids[j]

IdSet(lines) == {RowIds(lines)[k] : k \in 1..Len(RowIds(lines))}

\* The subtree-aggregate files and the category files among the output
\* files, by their names.
AggNames ==
    {name \in DOMAIN disk :
        EndsWith(name, <<"_", "_", "A", "L", "L", ".", "c", "s", "v">>)}

CategoryNames == (DOMAIN disk \ AggNames) \ {MasterFile}

\* C21: under any dedup settings, a tier whose dedup is on has no item id
\* in two rows of one of its files; and the seen-sets are scoped: when a
\* category has been written, every item id it returned stands in its
\* category file and in the aggregate file of its subtree, whatever
\* earlier categories and earlier subtrees wrote, and in the master file,
\* whose seen-set is the one of the whole run.
C21_DedupScopes ==
    /\ config.dedupeCategory => \A name \in CategoryNames : NoRepeat(disk[name])
    /\ config.dedupeSubtreeAgg => \A name \in AggNames : NoRepeat(disk[name])
    /\ (config.dedupeMaster /\ MasterFile \in DOMAIN disk) =>
          NoRepeat(disk[MasterFile])
    /\ pc = "catEnd" =>
          LET ids == {fp.allItems[k] : k \in 1..Len(fp.allItems)} \ {""}
          IN  /\ ids \subseteq IdSet(disk[category.file])
              /\ ids \subseteq IdSet(disk[subtreeAgg.file])
              /\ ids \subseteq IdSet(disk[master.file])

\* With every dedup on, the second subtree of a run has written the id X
\* its category returned to its own aggregate file, the aggregate file of
\* the first subtree holds X too, and the master file holds X once.
C21_Witness ==
    /\ config.dedupeCategory /\ config.dedupeSubtreeAgg /\ config.dedupeMaster
    /\ pc = "catEnd"
    /\ Cardinality({name \in AggNames : "X" \in IdSet(disk[name])}) = 2
    /\ "X" \in IdSet(disk[subtreeAgg.file])
    /\ Len(SelectSeq(RowIds(disk[MasterFile]), LAMBDA id : id = "X")) = 1

\* How many rows of the lines carry the item id.
CountId(lines, id) == Len(SelectSeq(RowIds(lines), LAMBDA x : x = id))

\* C22: a category that returned an item id once has one row for it in
\* its category file; and when no category file holds an id more than
\* once, the master file holds for it one row if master dedup is on and
\* some category returned it, and with master dedup off as many rows as
\* categories returned it (k = 2: one row against two).
C22_MasterDedupCount ==
    /\ pc = "catEnd" =>
          \A id \in {"X", "Y"} :
              Len(SelectSeq(fp.allItems, LAMBDA x : x = id)) = 1 =>
                  CountId(disk[category.file], id) = 1
    /\ MasterFile \in DOMAIN disk =>
          \A id \in {"X", "Y"} :
              LET k == Cardinality({name \in CategoryNames :
                                       CountId(disk[name], id) = 1})
              IN  (\A name \in CategoryNames : CountId(disk[name], id) <= 1) =>
                      CountId(disk[MasterFile], id) =
                          IF config.dedupeMaster THEN (IF k > 0 THEN 1 ELSE 0) ELSE k

\* A run with master dedup on has completed; two categories returned X
\* and the master file holds one row for X.
C22_Witness ==
    /\ trigger = "completed"
    /\ config.dedupeMaster
    /\ Cardinality({name \in CategoryNames : CountId(disk[name], "X") = 1}) = 2
    /\ CountId(disk[MasterFile], "X") = 1

\* The writer exists and has not finished: its file is open.
Live(stream) == stream.state \in {"open", "ending"}

\* C23 as claimed: a category's writer is opened when the category starts,
\* so it is open while the pages of the category are fetched.
C23_CategoryWriterOpenFromStart ==
    (pc \in {"fetch", "json", "text", "backoff", "pageDelay"} /\ ~exited) =>
        Live(category)

\* C23, amended: the category writer is opened only when the fetch of its
\* category has returned, and has finished before the next category's
\* delay starts; apart from that the writers nest as claimed.  The master
\* writer is opened once, at the start, and ended by main only after the
\* last subtree file; a subtree writer is opened at the head of its file,
\* when the writer before it has finished, and ended after its last row;
\* an open category writer implies an open subtree writer implies an open
\* master writer.
C23_WriterLifecycle ==
    /\ [](Live(category) => Live(subtreeAgg))
    /\ [](Live(subtreeAgg) => Live(master))
    /\ []((pc \in FetchPcs) => ~Live(category))
    /\ [][(~Live(master) /\ Live(master')) =>
             (master.state = "none" /\ pc = "start")]_vars
    /\ [][(master.state = "open" /\ master'.state = "ending" /\ ~exited') =>
             (pc = "forFile" /\ fileIdx > Len(SubtreeFiles) /\ ~Live(subtreeAgg))]_vars
    /\ [][(~Live(subtreeAgg) /\ Live(subtreeAgg')) =>
             (pc = "forFile" /\ ~Live(category) /\ master.state = "open")]_vars
    /\ [][(subtreeAgg.state = "open" /\ subtreeAgg'.state = "ending") =>
             (pc = "forRow" /\ rowIdx > Len(Rows) /\ ~Live(category))]_vars
    /\ [][(~Live(category) /\ Live(category')) =>
             (pc = "json" /\ pc' = "catEnd" /\ subtreeAgg.state = "open")]_vars

\* The second category of a run has its writer open, inside its subtree's
\* writer and the master writer; the writer of the first has finished.
C23_Witness ==
    /\ pc = "catEnd"
    /\ ~exited
    /\ Len(calls) = 2
    /\ runState.categoryRowsSucceeded = 2
    /\ Live(category)
    /\ subtreeAgg.state = "open"
    /\ master.state = "open"

\* The lines a are the first lines of b.
IsPrefix(a, b) == Len(a) <= Len(b) /\ SubSeq(b, 1, Len(a)) = a

\* C24: every output file starts with the header line and holds it
\* nowhere else; the header is there from the step that creates the file,
\* which is the step that opens its writer, and from then on the file
\* only grows, by rows.
C24_HeaderOnceFirst ==
    /\ [](\A name \in DOMAIN disk :
            /\ disk[name] # <<>>
            /\ disk[name][1] = HeaderLine
            /\ \A k \in 2..Len(disk[name]) : disk[name][k] # HeaderLine)
    /\ [](\A stream \in {master, subtreeAgg, category} :
            stream.state # "none" => stream.file \in DOMAIN disk)
    /\ [][\A name \in DOMAIN disk' :
             IF name \in DOMAIN disk
             THEN IsPrefix(disk[name], disk'[name])
             ELSE /\ disk'[name][1] = HeaderLine
                  /\ name \in {master'.file, subtreeAgg'.file, category'.file}]_vars

\* A category file, its subtree's aggregate file and the master file each
\* hold the header followed by two rows.
C24_Witness ==
    /\ pc = "catEnd"
    /\ Len(disk[category.file]) = 3
    /\ disk[category.file][1] = HeaderLine
    /\ Len(disk[subtreeAgg.file]) = 3
    /\ Len(disk[master.file]) = 3
    /\ disk[master.file][2].kind = "row"

\* C25: under any dedup settings, no row of any output file has an empty
\* item_id and no seen-set holds the empty id: an item without an itemId
\* leaves no trace in any tier.
C25_NoRowWithoutItemId ==
    /\ \A name \in DOMAIN disk : "" \notin IdSet(disk[name])
    /\ seen.master # Null => "" \notin seen.master[1]
    /\ seen.subtreeAgg # Null => "" \notin seen.subtreeAgg[1]

\* A category that returned X, an item without an id, Y and X again has
\* been written with every dedup off: three rows, X, Y and X, in each of
\* the three files.
C25_Witness ==
    /\ pc = "catEnd"
    /\ config = [dedupeCategory |-> FALSE, dedupeSubtreeAgg |-> FALSE,
                 dedupeMaster |-> FALSE]
    /\ fp.allItems = <<"X", "", "Y", "X">>
    /\ RowIds(disk[category.file]) = <<"X", "Y", "X">>
    /\ RowIds(disk[subtreeAgg.file]) = <<"X", "Y", "X">>
    /\ RowIds(disk[master.file]) = <<"X", "Y", "X">>

\* The string holds nothing but spaces.
Blank(s) == \A i \in 1..Len(s) : s[i] = " "

\* The rows of a file with an id and a name, by their index in the file.
UsableIdx(objs) == {k \in 1..Len(objs) : ~Blank(objs[k].id) /\ ~Blank(objs[k].name)}

\* main is inside the loop over the rows of the file at fileIdx.
InRows == pc \in ({"forRow"} \cup FetchPcs) /\ fileIdx \in 1..Len(SubtreeFiles)

\* The step of ForRow that skips the row at rowIdx as a parent row.
SkipsRow ==
    /\ pc = "forRow" /\ pc' = "forRow"
    /\ InRows
    /\ rowIdx <= Len(Rows)
    /\ rowIdx' = rowIdx + 1
    /\ runState' = runState

\* The step of ForRow that counts the row at rowIdx as attempted.
AttemptsRow ==
    /\ pc = "forRow" /\ pc' = "catDelay"
    /\ runState'.categoryRowsAttempted = runState.categoryRowsAttempted + 1

\* C26: the rows main loops over are the rows of the file with an id and
\* a name that are not blank, as many and in file order; so the row that
\* is attempted and then fetched has both, and a row is skipped as a parent
\* only for a row below it that has both.
C26_BlankRowsExcluded ==
    /\ [](InRows =>
            /\ Len(Rows) = Cardinality(UsableIdx(CurFile.objs))
            /\ \A k \in 1..Len(Rows) : Rows[k].id # <<>> /\ Rows[k].name # <<>>
            /\ \A k \in 1..Len(Rows) : \E n \in UsableIdx(CurFile.objs) :
                  /\ Cardinality({m \in UsableIdx(CurFile.objs) : m <= n}) = k
                  /\ Rows[k].id = Trim(CurFile.objs[n].id))
    /\ [](\A i \in 1..Len(calls) :
            LET objs == SubtreeFiles[calls[i][1]].objs
            IN  calls[i][2] <= Cardinality(UsableIdx(objs)))
    /\ [][SkipsRow =>
             \E n \in UsableIdx(CurFile.objs) :
                 /\ Len(Trim(CurFile.objs[n].path)) >= Len(CurRow.path)
                 /\ SubSeq(Trim(CurFile.objs[n].path), 1, Len(CurRow.path))
                      = CurRow.path]_vars

\* A file holds the row at path a and, below it, only a row with a blank
\* id: the blank row is not loaded and the row at a was asked for.
C26_Witness ==
    /\ pc = "forRow"
    /\ fileIdx = 1
    /\ Len(CurFile.objs) = 2
    /\ CurFile.objs[1].path = <<"a">>
    /\ CurFile.objs[2].id = <<" ">>
    /\ Len(Rows) = 1
    /\ calls = <<<<1, 1>>>>

\* b.path starts with a.path + "/".
Below(b, a) == StartsWith(b.path, a.path \o <<"/">>)

\* The loop is at a row that some loaded row of the file lies below.
AtRowWithRowBelow ==
    /\ InRows
    /\ pc = "forRow"
    /\ rowIdx <= Len(Rows)
    /\ \E k \in 1..Len(Rows) : Below(Rows[k], CurRow)

\* The calls made so far are for rows that satisfy Leaf.
CallsOnly(Leaf(_, _)) ==
    \A i \in 1..Len(calls) :
        LET rows == LoadedRows(SubtreeFiles[calls[i][1]].objs)
        IN  Leaf(rows, rows[calls[i][2]])

OtherRowBelow ==
    LET p == CurRow.path
        prefix == IF EndsWith(p, <<"/">>) THEN p ELSE p \o <<"/">>
    IN  \E k \in (1..Len(Rows)) \ {rowIdx} :
            /\ StartsWith(Rows[k].path, prefix)
            /\ Rows[k].path # p

\* C28: a row is passed over as a parent only if another row of the file
\* lies below it; a row with no other row below it (its path ending with
\* the separator or shared with another row included) is counted as
\* attempted and fetched.
C28_ParentOnlyWithOtherRowBelow ==
    [][pc = "forRow" /\ InRows /\ rowIdx <= Len(Rows) /\ ~OtherRowBelow
         => AttemptsRow]_vars

\* Two rows share the path a and nothing lies below them: both are
\* asked for.
C28_DuplicatedPathFetched ==
    /\ pc = "forRow"
    /\ fileIdx = 1
    /\ rowIdx = 3
    /\ Len(Rows) = 2
    /\ Rows[1].path = <<"a">>
    /\ Rows[2].path = <<"a">>
    /\ calls = <<<<1, 1>>, <<1, 2>>>>

\* The number of '/'-separated segments of a path, a path of spaces only
\* counting as deeper than any other.
Segments(path) ==
    IF Blank(path) THEN INFINITE_DEPTH
    ELSE 1 + Cardinality({i \in 1..Len(path) : path[i] = "/"})

\* The subtree-aggregate file named after the row o.
AggFileOf(o) ==
    sanitizeFilename(o.name \o <<"_">> \o o.id) \o <<"_", "_", "A", "L", "L">> \o CsvExt

\* C29: once a file is opened, the root picked for it is one of its rows
\* with an id and a name, no such row has fewer path segments, and none
\* with as few segments has a shorter path; it is null exactly when the
\* file has no row with an id and a name. The subtree-aggregate file is
\* named after the root picked.
C29_RootIsShallowestShortest ==
    InRows =>
        LET objs == CurFile.objs
            root == pickSubtreeRoot(objs)
        IN  /\ root = Null <=> UsableIdx(objs) = {}
            /\ root # Null =>
                  /\ \E n \in UsableIdx(objs) : objs[n] = root[1]
                  /\ \A n \in UsableIdx(objs) :
                        /\ Segments(objs[n].path) >= Segments(root[1].path)
                        /\ Segments(objs[n].path) = Segments(root[1].path)
                             => Len(objs[n].path) >= Len(root[1].path)
                  /\ subtreeAgg.file = AggFileOf(root[1])

\* The file holds a/b, then " a", then a: the first is deeper, the second
\* as deep as the third and longer, and the file is named after the third.
C29_Witness ==
    /\ pc = "forRow"
    /\ fileIdx = 1
    /\ Len(CurFile.objs) = 3
    /\ CurFile.objs[1].path = <<"a", "/", "b">>
    /\ CurFile.objs[2].path = <<" ", "a">>
    /\ CurFile.objs[3].path = <<"a">>
    /\ pickSubtreeRoot(CurFile.objs) = Some(CurFile.objs[3])
    /\ subtreeAgg.file = AggFileOf(CurFile.objs[3])

\* The loop over the files is at a readable file with no row that has
\* both an id and a name.
AtFileWithoutUsableRow ==
    /\ pc = "forFile"
    /\ fileIdx \in 1..Len(SubtreeFiles)
    /\ CurFile.readable
    /\ UsableIdx(CurFile.objs) = {}

\* C30: a file with no row that has both an id and a name is passed over:
\* the loop goes on to the next file with no subtree-aggregate writer
\* opened, no file created, nothing counted and no call made, and at the
\* end of the run subtreeFilesProcessed counts the files with such a row.
C30_FileWithoutUsableRowSkipped ==
    /\ [][AtFileWithoutUsableRow =>
             /\ pc' = "forFile"
             /\ fileIdx' = fileIdx + 1
             /\ subtreeAgg' = subtreeAgg
             /\ disk' = disk
             /\ runState' = runState
             /\ calls' = calls]_vars
    /\ [](\A i \in 1..Len(calls) :
            UsableIdx(SubtreeFiles[calls[i][1]].objs) # {})
    /\ [](exited /\ exitCode = 0 =>
            runState.subtreeFilesProcessed =
                Cardinality({f \in 1..Len(SubtreeFiles) :
                                UsableIdx(SubtreeFiles[f].objs) # {}}))

\* The first file held one row with a blank id: no call was made for it
\* and the run went on to the second file and asked for its leaf.
C30_RunContinues ==
    /\ fileIdx = 2
    /\ pc = "forRow"
    /\ rowIdx = 3
    /\ Len(SubtreeFiles[1].objs) = 1
    /\ UsableIdx(SubtreeFiles[1].objs) = {}
    /\ calls = <<<<2, 2>>>>

\* main is about to throw on its input: the categories folder is missing,
\* or the subtree file at fileIdx cannot be read.
InputFault ==
    /\ ~exited
    /\ \/ pc = "start" /\ ~dir.exists
       \/ /\ pc = "forFile"
          /\ fileIdx \in 1..Len(SubtreeFiles)
          /\ ~CurFile.readable

C32_FailuresAppendOnly ==
    /\ [][/\ Len(runState'.failures) >= Len(runState.failures)
          /\ SubSeq(runState'.failures, 1, Len(runState.failures)) = runState.failures]_vars
    /\ [](Cardinality(CategoryFailures) = runState.categoryRowsFailed)
    /\ [][runState'.categoryRowsFailed # runState.categoryRowsFailed =>
            /\ runState'.categoryRowsFailed = runState.categoryRowsFailed + 1
            /\ Len(runState'.failures) = Len(runState.failures) + 1
            /\ LET rec == runState'.failures[Len(runState'.failures)]
               IN  /\ rec.type = "categoryFetchFailed"
                   /\ rec.subtreeFile = CurFile.name
                   /\ rec.categoryId = CurRow.id]_vars

\* Two categories failed and an uncaught exception followed: three
\* records, in the order they happened.
C32_Witness ==
    /\ Len(runState.failures) = 3
    /\ runState.failures[1].type = "categoryFetchFailed"
    /\ runState.failures[2].type = "categoryFetchFailed"
    /\ runState.failures[1].categoryId # runState.failures[2].categoryId
    /\ runState.failures[3].type = "uncaughtException"
    /\ runState.categoryRowsFailed = 2

\* The writer was never opened or the callback of its end() has run.
Closed(stream) == stream.state \in {"none", "finished"}

\* The calls were made in the order of the files and, within a file, of
\* its rows.
CallsInOrder ==
    \A i, j \in 1..Len(calls) :
        i < j => \/ calls[i][1] < calls[j][1]
                 \/ calls[i][1] = calls[j][1] /\ calls[i][2] < calls[j][2]

\* C33: with no signal and no fatal error, and every fetch ending, the run
\* ends: the process exits with code 0 and exit reason "completed", every
\* row main is to attempt was asked for exactly once, in the order of the
\* files and of the rows in each, and the step that writes the log finds
\* the writers of the three tiers closed.
C33_RunCompletes ==
    /\ <>(exited /\ exitCode = 0 /\ runState.exitReason = "completed")
    /\ [](exited =>
            /\ finalized
            /\ exitCode = 0
            /\ log # Null /\ log[1].exitReason = "completed"
            /\ Len(calls) = Cardinality(EligiblePairs)
            /\ {calls[i] : i \in 1..Len(calls)} = EligiblePairs
            /\ runState.categoryRowsAttempted = Cardinality(EligiblePairs)
            /\ log[1].counts.categoryRowsAttempted = Cardinality(EligiblePairs)
            /\ Closed(master) /\ master.state = "finished"
            /\ Closed(subtreeAgg)
            /\ Closed(category))
    /\ [](CallsInOrder)
    /\ [][logWrites' # logWrites =>
            /\ master'.state = "finished"
            /\ Closed(subtreeAgg)
            /\ Closed(category)]_vars

\* The run over four files has completed: the category of the second file
\* was written and the category of the fourth failed.
C33_Witness ==
    /\ exited
    /\ trigger = "completed"
    /\ Len(SubtreeFiles) = 3
    /\ calls = <<<<1, 1>>, <<3, 2>>>>
    /\ runState.categoryRowsSucceeded = 1
    /\ runState.categoryRowsFailed = 1
    /\ category.state = "finished"

\* C34: the line rowToCSVLine writes for a row of strings, whatever commas,
\* double quotes, CR, LF or empty fields they hold, is parsed by parseCSV
\* into exactly one row, whose fields are the strings written.
C34_CsvRoundTrip ==
    csv.step = "parsed" => csv.parsed = <<csv.row>>

\* A field holding a comma, a quote and a newline was written next to an
\* empty field, and both came back.
C34_Witness ==
    /\ csv.step = "parsed"
    /\ csv.row = <<<<",", "\"", "\n">>, <<>>>>
    /\ csv.line = <<"\"", ",", "\"", "\"", "\n", "\"", ",", "\"", "\"", "\n">>
    /\ csv.parsed = <<csv.row>>

\* The characters a sanitized name is made of: letters, digits, the hyphen
\* and the underscore.
OnlyNameChars(s) == \A i \in 1..Len(s) : s[i] \in WordChars \cup {"-"}

NoDoubleUnderscore(s) ==
    \A i \in 1..(Len(s) - 1) : ~(s[i] = "_" /\ s[i + 1] = "_")

\* C35 as stated: the result of sanitizeFilename holds only alphanumerics,
\* hyphens and underscores, no two underscores in a row, no underscore at
\* either end, and at most 160 characters.
C35_NameNeverEndsWithUnderscore ==
    fname.step = "result" =>
        /\ OnlyNameChars(fname.result)
        /\ NoDoubleUnderscore(fname.result)
        /\ fname.result # <<>>
        /\ fname.result[1] # "_"
        /\ fname.result[Len(fname.result)] # "_"
        /\ Len(fname.result) <= FILENAME_MAX_CHARS

\* C35: the result of sanitizeFilename holds only alphanumerics, hyphens
\* and underscores, no two underscores in a row, no underscore at its
\* start, and at most 160 characters; it ends with an underscore only when
\* it was cut at 160 characters from a longer name.
C35_SanitizedName ==
    fname.step = "result" =>
        /\ OnlyNameChars(fname.result)
        /\ NoDoubleUnderscore(fname.result)
        /\ fname.result # <<>>
        /\ fname.result[1] # "_"
        /\ Len(fname.result) <= FILENAME_MAX_CHARS
        /\ fname.result[Len(fname.result)] = "_" =>
              /\ Len(fname.result) = FILENAME_MAX_CHARS
              /\ Len(fname.value) > FILENAME_MAX_CHARS

\* A value of 159 letters, a space, a slash and a letter: the space and
\* the slash became one underscore, and the cut at 160 left it at the end.
C35_Witness ==
    /\ fname.step = "result"
    /\ Len(fname.value) = FILENAME_MAX_CHARS + 2
    /\ SubSeq(fname.value, FILENAME_MAX_CHARS, FILENAME_MAX_CHARS + 2) = <<" ", "/", "a">>
    /\ Len(fname.result) = FILENAME_MAX_CHARS
    /\ fname.result[FILENAME_MAX_CHARS] = "_"
    /\ fname.result[FILENAME_MAX_CHARS - 1] = "a"

\* The string without the spaces at its two ends.
Stripped(s) ==
    LET inner == {i \in 1..Len(s) : s[i] # " "}
    IN  IF inner = {} THEN <<>>
        ELSE SubSeq(s, CHOOSE i \in inner : \A j \in inner : i <= j,
                       CHOOSE i \in inner : \A j \in inner : j <= i)

C37_CategoryAllOrNothing ==
    /\ [][(pc \in FetchPcs /\ pc' # "catEnd") =>
            (disk' = disk /\ seen' = seen /\ category' = category)]_vars
    /\ [][(runState'.categoryRowsFailed # runState.categoryRowsFailed) =>
            (pc \in FetchPcs /\ CategoryFile(CurFile, CurRow) \notin DOMAIN disk')]_vars

\* The first page of the first category was received with its items and
\* the request for the second page failed: the category is counted as
\* failed and the only files are the master and the subtree aggregate,
\* each holding its header alone.
C37_Witness ==
    /\ pc = "forRow"
    /\ calls = <<<<1, 1>>>>
    /\ runState.categoryRowsFailed = 1
    /\ fp.pageNo = 2
    /\ fp.allItems # <<>>
    /\ DOMAIN disk = {master.file, subtreeAgg.file}
    /\ \A name \in DOMAIN disk : Len(disk[name]) = 1

\* The step in which main creates the file of a category and writes it.
OpensCategoryFile == pc # "catEnd" /\ pc' = "catEnd"

\* C38: no category file is opened twice in a run: the file main creates
\* for a category that was fetched is not among the files created before,
\* so the category files are as many as the categories that succeeded.
C38_CategoryFilesDistinct ==
    /\ [][OpensCategoryFile => category'.file \notin DOMAIN disk]_vars
    /\ [](Cardinality(CategoryNames) = runState.categoryRowsSucceeded)

\* Two leaf rows with different names and ids were both fetched and
\* written to files of their own.
C38_DistinctNamesKept ==
    /\ pc = "catEnd"
    /\ runState.categoryRowsSucceeded = 2
    /\ Rows[2].id # Rows[3].id
    /\ Cardinality(CategoryNames) = 2

\* C39: a request that ends without a status, by the rejection of fetch or
\* by a 2xx body that is no JSON, is not repeated: from the request main
\* goes on to the body or to the next row, from the body to the next page,
\* the end of the category or the next row, never to a backoff; and the
\* step to the next row counts the category as failed with a record whose
\* httpStatus is null, the request having been made once.
C39_NoStatusNoRetry ==
    /\ [][pc = "fetch" => pc' \in {"fetch", "json", "text", "forRow"}]_vars
    /\ [][pc = "json" => pc' \in {"json", "pageDelay", "catEnd", "forRow"}]_vars
    /\ [][(pc \in {"fetch", "json"} /\ pc' = "forRow") =>
            (/\ runState'.categoryRowsFailed = runState.categoryRowsFailed + 1
             /\ Len(runState'.failures) = Len(runState.failures) + 1
             /\ runState'.failures[Len(runState'.failures)].type = "categoryFetchFailed"
             /\ runState'.failures[Len(runState'.failures)].httpStatus = Null
             /\ fp'.reqs = fp.reqs
             /\ fp.reqs = fp.backoffs + 1
             /\ rowIdx' = rowIdx + 1)]_vars

\* The first answer of a category was a 2xx body that is no JSON: the
\* category failed after one request, with no status in its record.
C39_Witness ==
    /\ pc = "forRow"
    /\ runState.categoryRowsFailed = 1
    /\ LastFailure.message = "invalid json"
    /\ LastFailure.httpStatus = Null
    /\ fp.reqs = 1
    /\ fp.backoffs = 0
    /\ fp.pageNo = 1

\* The bounds a call of fetchProductsForTerm keeps: attempts and requests
\* of a fetchWithRetry call, fetchWithRetry calls of a page, pages.
KrogerBounds ==
    /\ kr.attempt <= MAX_RETRIES
    /\ kr.reqs <= MAX_RETRIES
    /\ kr.call <= 2
    /\ kr.pages <= totalPages(kr)
    /\ kr.products <= kr.pages * PAGE_LIMIT
    /\ kr.pc \in {"request", "wait"} =>
          /\ kr.page < totalPages(kr)
          /\ kr.pages = kr.page + 1
          /\ kr.reqs = kr.attempt
          /\ kr.call = 2 => kr.token # kr.firstToken

\* A request of fetchWithRetry is answered with one of the statuses.
Answered(statuses) == kr.pc = "request" /\ kr'.status \in statuses

\* C40: a call of fetchWithRetry issues at most MAX_RETRIES requests; a 429
\* is waited for and retried, another non-2xx status too while attempts are
\* left, a 401 is thrown at once with code UNAUTHORIZED; fetchProductsForTerm
\* answers the first UNAUTHORIZED of a page by invalidating the cached
\* token, getting a new one and fetching the page once more, and lets the
\* second one through; it asks for at most MAX_PAGES pages and stops at the
\* first page with fewer than PAGE_LIMIT items.
C40_KrogerRetry ==
    /\ [](kr.pc # "idle" => KrogerBounds)
    /\ [][Answered({401}) =>
            (/\ kr'.reqs = kr.reqs
             /\ kr'.page = kr.page
             /\ kr'.products = kr.products
             /\ IF kr.call = 1
                THEN kr'.pc = "token" /\ kr'.call = 2 /\ kr'.expiresAt = "0"
                ELSE kr'.pc = "thrown" /\ kr'.code = "UNAUTHORIZED")]_vars
    /\ [][Answered({429, 500}) =>
            (IF kr'.status = 429 \/ kr.attempt < MAX_RETRIES
             THEN kr'.pc = "wait" ELSE kr'.pc = "thrown")]_vars
    /\ [][kr.pc = "wait" =>
            (IF kr.attempt < MAX_RETRIES
             THEN (/\ kr'.pc = "request"
                   /\ kr'.reqs = kr.reqs + 1
                   /\ kr'.call = kr.call
                   /\ kr'.page = kr.page)
             ELSE kr'.pc = "thrown")]_vars
    /\ [][kr.pc = "token" /\ kr.call = 2 /\ kr'.pc # "thrown" =>
            (/\ kr'.pc = "request"
             /\ kr'.call = 2
             /\ kr'.page = kr.page
             /\ kr'.token # kr.firstToken)]_vars
    /\ [][Answered({200}) =>
            (IF kr'.products - kr.products < PAGE_LIMIT
             THEN kr'.pc = "returned" ELSE kr'.pc = "pageDelay")]_vars
    /\ [][kr.pc = "pageDelay" =>
            (/\ kr'.page = kr.page + 1
             /\ IF kr'.page < totalPages(kr)
                THEN kr'.pc \in {"request", "token"} /\ kr'.call = 1
                ELSE kr'.pc = "returned")]_vars

\* The last of MAX_PAGES full pages has come with the third request of the
\* call repeated with a new token after a 401.
C40_Witness ==
    /\ kr.pc = "returned"
    /\ kr.pages = MAX_PAGES
    /\ kr.products = MAX_PAGES * PAGE_LIMIT
    /\ kr.call = 2
    /\ kr.reqs = MAX_RETRIES
    /\ kr.token # kr.firstToken

==============================================================================
